---- MODULE Spec2Model ----
(***************************************************************************)
(* The analysis-and-alerting pipeline of the Radius / GEO agents:          *)
(* the run repository (memoryStore.ts), the drift alert engine             *)
(* (alertMonitor.ts), the visibility scorer (visibilityScorer.ts) and the  *)
(* orchestrators that sequence them (radiusOrchestrator.ts, index.ts).     *)
(***************************************************************************)
EXTENDS Integers, Sequences, FiniteSets, TLC

VARIABLES
    analysisHistory,  \* memoryStore.ts: Map<brandKey, GEOAnalysisResult[]>
    stored,           \* history variable: every run handed to storeAnalysisResult, per key, in call order
    lookup,           \* the last repository call and what it returned
    current,          \* generateAlerts: the `current` argument {simulations, visibilityScore}
    previous,         \* generateAlerts: the `previous` argument (a run or undefined)
    alerts,           \* generateAlerts: the returned list
    rollup,           \* summarizeAlerts and groupAlertsByType of the returned list
    phase,            \* "input" before generateAlerts has been applied, "done" after
    pc,               \* orchestrator: stage of each orchestration call
    run,              \* orchestrator: the local variables of each orchestration call
    clock,            \* Date.now(), in ticks
    batch,            \* simulateAllSearches: the locals of one call and its oracle calls in flight
    call              \* one call of a planner or gap-analyzer function: its arguments and result

vars == <<analysisHistory, stored, lookup, current, previous, alerts, rollup, phase, pc, run, clock,
          batch, call>>

storeVars == <<analysisHistory, stored, lookup>>
alertVars == <<current, previous, alerts, rollup, phase>>
orchVars == <<pc, run, clock>>
agentVars == <<batch, call>>

\* `undefined`, as returned by the lookups and accepted by generateAlerts
NoRun == [runId |-> 0]

(***************************************************************************)
(* Sequence helpers                                                        *)
(***************************************************************************)
\* the last n elements of s (all of s when it is shorter)
LastN(s, n) ==
    IF Len(s) <= n THEN s ELSE SubSeq(s, Len(s) - n + 1, Len(s))

(***************************************************************************)
(* memoryStore.ts                                                          *)
(***************************************************************************)
\* brand strings are sequences of one-character strings
toLowerCase(s) ==
    [i \in 1..Len(s) |->
        CASE s[i] = "A" -> "a"
          [] s[i] = "B" -> "b"
          [] s[i] = "W" -> "w"
          [] OTHER -> s[i]]

\* replace(/^www\./, '')
StripLeadingWww(s) ==
    IF Len(s) >= 4 /\ SubSeq(s, 1, 4) = <<"w", "w", "w", ".">>
    THEN SubSeq(s, 5, Len(s)) ELSE s

\* replace(/\/$/, '')
StripTrailingSlash(s) ==
    IF Len(s) >= 1 /\ s[Len(s)] = "/" THEN SubSeq(s, 1, Len(s) - 1) ELSE s

\* variant: the trailing slash is kept
normalizeBrandKey_Mut(brand) ==
    StripLeadingWww(toLowerCase(brand))

normalizeBrandKey(brand) ==
    StripTrailingSlash(StripLeadingWww(toLowerCase(brand)))

\* Keep only last 100 runs per brand
RetentionCap == 100

\* analysisHistory.get(brandKey) || []
HistoryOf(hist, brandKey) ==
    IF brandKey \in DOMAIN hist THEN hist[brandKey] ELSE <<>>

\* variant: the cap drops the newest runs instead of the oldest
storeAnalysisResult_Mut(hist, result) ==
    LET brandKey == normalizeBrandKey(result.request.brand)
        pushed == Append(HistoryOf(hist, brandKey), result)
        existing == IF Len(pushed) > RetentionCap
                    THEN SubSeq(pushed, 1, RetentionCap)
                    ELSE pushed
    IN [k \in DOMAIN hist \cup {brandKey} |->
            IF k = brandKey THEN existing ELSE hist[k]]

\* variant: the list is looked up under the raw brand string and set under the key
storeRaw_Mut(hist, result) ==
    LET brandKey == normalizeBrandKey(result.request.brand)
        pushed == Append(HistoryOf(hist, result.request.brand), result)
        existing == IF Len(pushed) > RetentionCap
                    THEN SubSeq(pushed, Len(pushed) - RetentionCap + 1, Len(pushed))
                    ELSE pushed
    IN [k \in DOMAIN hist \cup {brandKey} |->
            IF k = brandKey THEN existing ELSE hist[k]]

\* variant: once the cap is passed the newest run goes with the oldest
storeSplice_Mut(hist, result) ==
    LET brandKey == normalizeBrandKey(result.request.brand)
        pushed == Append(HistoryOf(hist, brandKey), result)
        existing == IF Len(pushed) > RetentionCap
                    THEN SubSeq(pushed, Len(pushed) - RetentionCap + 1, Len(pushed) - 1)
                    ELSE pushed
    IN [k \in DOMAIN hist \cup {brandKey} |->
            IF k = brandKey THEN existing ELSE hist[k]]

storeAnalysisResult(hist, result) ==
    LET brandKey == normalizeBrandKey(result.request.brand)
        pushed == Append(HistoryOf(hist, brandKey), result)
        existing == IF Len(pushed) > RetentionCap
                    THEN SubSeq(pushed, Len(pushed) - RetentionCap + 1, Len(pushed))
                    ELSE pushed
    IN [k \in DOMAIN hist \cup {brandKey} |->
            IF k = brandKey THEN existing ELSE hist[k]]

getLatestAnalysis(hist, brand) ==
    LET brandKey == normalizeBrandKey(brand)
        history == HistoryOf(hist, brandKey)
    IN IF brandKey \notin DOMAIN hist \/ Len(history) = 0
       THEN NoRun
       ELSE history[Len(history)]

getPreviousAnalysis(hist, brand) ==
    LET brandKey == normalizeBrandKey(brand)
        history == HistoryOf(hist, brandKey)
    IN IF brandKey \notin DOMAIN hist \/ Len(history) < 2
       THEN NoRun
       ELSE history[Len(history) - 1]

\* Array.prototype.slice(start): from the end when start is negative
Slice(s, start) ==
    LET from == IF start < 0
                THEN (IF Len(s) + start > 0 THEN Len(s) + start ELSE 0)
                ELSE (IF start < Len(s) THEN start ELSE Len(s))
    IN SubSeq(s, from + 1, Len(s))

\* Array.prototype.reverse
Reverse(s) == [i \in 1..Len(s) |-> s[Len(s) + 1 - i]]

\* the default of the limit parameter, and of the route's query string
DefaultLimit == 10

\* history.slice(-limit).reverse(): -0 is 0, and slice(0) is the whole list
getAnalysisHistory(hist, brand, limit) ==
    LET brandKey == normalizeBrandKey(brand)
        history == HistoryOf(hist, brandKey)
    IN Reverse(Slice(history, -limit))

HistoricalRun(result) ==
    [runId |-> result.runId, brand |-> result.request.brand,
     timestamp |-> result.timestamp,
     visibilityScore |-> result.visibilityScore.percentage,
     queryCount |-> Len(result.queries), alertCount |-> Len(result.alerts)]

getHistoricalRuns(hist, brand, limit) ==
    LET history == getAnalysisHistory(hist, brand, limit)
    IN [i \in 1..Len(history) |-> HistoricalRun(history[i])]

\* Array.from(analysisHistory.keys()), as a set
getAllBrands(hist) == DOMAIN hist

\* analysisHistory.delete(brandKey)
clearHistory(hist, brand) ==
    [k \in DOMAIN hist \ {normalizeBrandKey(brand)} |-> hist[k]]

\* parseInt(req.query.limit) || 10: an absent parameter parses to NaN
RouteLimit(param) == IF ~param.given \/ param.value = 0 THEN DefaultLimit ELSE param.value

\* the elements of a list
Range(s) == {s[i] : i \in 1..Len(s)}

(***************************************************************************)
(* visibilityScorer.ts                                                     *)
(***************************************************************************)
BRAND_MENTIONED == 2
BRAND_TOP_POSITION == 3
BRAND_MIDDLE_POSITION == 1
BRAND_BOTTOM_POSITION == 0
COMPETITOR_PENALTY == -1
NEGATIVE_SENTIMENT_PENALTY == -2

Abs(n) == IF n < 0 THEN -n ELSE n
Max(a, b) == IF a >= b THEN a ELSE b

\* the points one simulation adds to totalScore
SimPoints(sim) ==
    (IF sim.brandFound
     THEN BRAND_MENTIONED
          + (CASE sim.brandPosition = "top" -> BRAND_TOP_POSITION
               [] sim.brandPosition = "middle" -> BRAND_MIDDLE_POSITION
               [] sim.brandPosition = "bottom" -> BRAND_BOTTOM_POSITION
               [] OTHER -> 0)
          + (IF sim.sentiment = "negative" THEN NEGATIVE_SENTIMENT_PENALTY ELSE 0)
     ELSE 0)
    + Len(sim.competitorsFound) * COMPETITOR_PENALTY

RECURSIVE SumPoints(_)
SumPoints(simulations) ==
    IF simulations = <<>> THEN 0
    ELSE SimPoints(Head(simulations)) + SumPoints(Tail(simulations))

\* the pairs (totalScore, maxPossibleScore), maxPossibleScore <= 100, at which the
\* double (totalScore / maxPossibleScore) * 100 is 57.49999999999999, just below
\* the half 57.5 it equals in exact arithmetic; at every other pair of that range
\* the double and the exact quotient round alike
DoubleBelowHalf == {<<23, 40>>, <<46, 80>>}

\* Math.round((totalScore / Math.max(1, maxPossibleScore)) * 100), totalScore >= 0:
\* round half up, applied to the double
RoundPercent(totalScore, maxPossibleScore) ==
    LET d == Max(1, maxPossibleScore)
        exact == (200 * totalScore + d) \div (2 * d)
    IN IF <<totalScore, d>> \in DoubleBelowHalf THEN exact - 1 ELSE exact

RECURSIVE CompetitorCount(_)
CompetitorCount(simulations) ==
    IF simulations = <<>> THEN 0
    ELSE Len(Head(simulations).competitorsFound) + CompetitorCount(Tail(simulations))

\* variant: the total is not kept from going below 0
ClampScore_Mut(totalScore) == totalScore

\* Ensure score doesn't go below 0
ClampScore(totalScore) == Max(0, totalScore)

calculateVisibilityScore(simulations) ==
    LET maxPossibleScore == Len(simulations) * (BRAND_MENTIONED + BRAND_TOP_POSITION)
        totalScore == ClampScore(SumPoints(simulations))
    IN [score |-> totalScore,
        maxPossibleScore |-> maxPossibleScore,
        percentage |-> RoundPercent(totalScore, maxPossibleScore),
        breakdown |->
            [brandMentions |-> Len(SelectSeq(simulations, LAMBDA sim : sim.brandFound)),
             topPositions |->
                 Len(SelectSeq(simulations,
                               LAMBDA sim : sim.brandFound /\ sim.brandPosition = "top")),
             middlePositions |->
                 Len(SelectSeq(simulations,
                               LAMBDA sim : sim.brandFound /\ sim.brandPosition = "middle")),
             competitorPenalty |-> CompetitorCount(simulations) * Abs(COMPETITOR_PENALTY),
             sentimentPenalty |->
                 Len(SelectSeq(simulations,
                               LAMBDA sim : sim.brandFound /\ sim.sentiment = "negative"))
                   * Abs(NEGATIVE_SENTIMENT_PENALTY)]]

(***************************************************************************)
(* alertMonitor.ts                                                         *)
(* An alert keeps its type, severity, query and the two state snapshots;   *)
(* `message` is the ALERT TYPE header of its message template.             *)
(***************************************************************************)
\* the query of the run-level alert
OverallQuery == "Overall visibility score"

\* result of previous.find(...) when nothing matches
NoSim == [query |-> "undefined"]

\* previous.find(p => p.query === query): the first match
FindByQuery(sims, query) ==
    IF \E i \in 1..Len(sims) : sims[i].query = query
    THEN sims[CHOOSE i \in 1..Len(sims) :
                /\ sims[i].query = query
                /\ \A j \in 1..(i - 1) : sims[j].query # query]
    ELSE NoSim

DropThreshold == 20
HighDropThreshold == 30

\* variant: a drop of exactly 30 points is not yet high
DropSeverity_Mut(absoluteDrop) ==
    IF absoluteDrop > HighDropThreshold THEN "high"
    ELSE IF absoluteDrop >= DropThreshold THEN "medium" ELSE "low"

\* severity of the run-level alert
DropSeverity(absoluteDrop) ==
    IF absoluteDrop >= HighDropThreshold THEN "high"
    ELSE IF absoluteDrop >= DropThreshold THEN "medium" ELSE "low"

\* relativeDrop >= 20, with relativeDrop = (absoluteDrop / previous.percentage) * 100
\* when previous.percentage > 0 and 0 otherwise
RelativeDropTriggers(absoluteDrop, prevPercentage) ==
    /\ prevPercentage > 0
    /\ absoluteDrop * 100 >= DropThreshold * prevPercentage

\* returns a list of zero (null) or one alert
checkVisibilityDrop(cur, prev) ==
    LET absoluteDrop == prev.percentage - cur.percentage
    IN IF absoluteDrop >= DropThreshold \/ RelativeDropTriggers(absoluteDrop, prev.percentage)
       THEN <<[type |-> "visibility_drop",
               severity |-> DropSeverity(absoluteDrop),
               message |-> "Drop",
               query |-> OverallQuery,
               previousState |-> [brandPosition |-> "N/A", score |-> prev.percentage],
               currentState |-> [brandPosition |-> "N/A", score |-> cur.percentage]]>>
       ELSE <<>>

\* variant: any alert pushed so far counts as already added
AlreadyAdded_Mut(list, query) == Len(list) > 0

\* some(a => a.query === query && a.type === 'brand_disappeared')
AlreadyAdded(list, query) ==
    \E i \in 1..Len(list) : list[i].query = query /\ list[i].type = "brand_disappeared"

\* the alerts one iteration of the disappearance loop pushes, given those pushed so far
DisappearanceStep(currSim, prevSim, sofar) ==
    LET first ==
            IF /\ prevSim.brandFound /\ prevSim.brandPosition = "top"
               /\ (~currSim.brandFound \/ currSim.brandPosition = "absent")
            THEN <<[type |-> "brand_disappeared",
                    severity |-> "high",
                    message |-> "Drop",
                    query |-> currSim.query,
                    previousState |-> [brandPosition |-> prevSim.brandPosition, score |-> 1],
                    currentState |-> [brandPosition |-> IF currSim.brandFound
                                                        THEN currSim.brandPosition
                                                        ELSE "absent",
                                      score |-> 0]]>>
            ELSE <<>>
        second ==
            IF /\ prevSim.brandFound /\ ~currSim.brandFound
               /\ ~AlreadyAdded(sofar \o first, currSim.query)
            THEN <<[type |-> "brand_disappeared",
                    severity |-> "medium",
                    message |-> "Drop",
                    query |-> currSim.query,
                    previousState |-> [brandPosition |-> prevSim.brandPosition, score |-> 1],
                    currentState |-> [brandPosition |-> "absent", score |-> 0]]>>
            ELSE <<>>
    IN first \o second

RECURSIVE DisappearanceLoop(_, _, _, _)
DisappearanceLoop(cur, prev, i, sofar) ==
    IF i > Len(cur) THEN sofar
    ELSE LET prevSim == FindByQuery(prev, cur[i].query)
         IN IF prevSim = NoSim
            THEN DisappearanceLoop(cur, prev, i + 1, sofar)
            ELSE DisappearanceLoop(cur, prev, i + 1,
                                   sofar \o DisappearanceStep(cur[i], prevSim, sofar))

checkBrandDisappearance(cur, prev) == DisappearanceLoop(cur, prev, 1, <<>>)

brandWorsened(currSim, prevSim) ==
    \/ ~currSim.brandFound
    \/ (prevSim.brandPosition = "top" /\ currSim.brandPosition # "top")

\* variant: only a longer competitor list counts, not a new member
competitorGained_Mut(currSim, prevSim) ==
    Len(currSim.competitorsFound) > Len(prevSim.competitorsFound)

competitorGained(currSim, prevSim) ==
    \/ Len(currSim.competitorsFound) > Len(prevSim.competitorsFound)
    \/ \E i \in 1..Len(currSim.competitorsFound) :
          currSim.competitorsFound[i] \notin Range(prevSim.competitorsFound)

\* the alerts one iteration of the competitor loop pushes
CompetitorStep(currSim, prevSim) ==
    IF /\ prevSim.brandFound
       /\ (prevSim.brandPosition = "top" \/ prevSim.brandPosition = "middle")
       /\ brandWorsened(currSim, prevSim)
       /\ competitorGained(currSim, prevSim)
    THEN <<[type |-> "competitor_overtake",
            severity |-> "high",
            message |-> "Threat",
            query |-> currSim.query,
            previousState |-> [brandPosition |-> prevSim.brandPosition, score |-> 1],
            currentState |-> [brandPosition |-> IF currSim.brandFound
                                                THEN currSim.brandPosition
                                                ELSE "absent",
                              score |-> 0]]>>
    ELSE <<>>

RECURSIVE CompetitorLoop(_, _, _)
CompetitorLoop(cur, prev, i) ==
    IF i > Len(cur) THEN <<>>
    ELSE LET prevSim == FindByQuery(prev, cur[i].query)
         IN (IF prevSim = NoSim THEN <<>> ELSE CompetitorStep(cur[i], prevSim))
            \o CompetitorLoop(cur, prev, i + 1)

checkCompetitorReplacement(cur, prev) == CompetitorLoop(cur, prev, 1)

\* variant: middle to top is not an improvement
positionImproved_Mut(currSim, prevSim) ==
    prevSim.brandPosition = "bottom"
      /\ (currSim.brandPosition = "middle" \/ currSim.brandPosition = "top")

positionImproved(currSim, prevSim) ==
    \/ (prevSim.brandPosition = "bottom"
         /\ (currSim.brandPosition = "middle" \/ currSim.brandPosition = "top"))
    \/ (prevSim.brandPosition = "middle" /\ currSim.brandPosition = "top")

\* the alerts one iteration of the gains loop pushes
GainStep(currSim, prevSim) ==
    (IF prevSim = NoSim /\ currSim.brandFound
     THEN <<[type |-> "visibility_drop",
             severity |-> "low",
             message |-> "Gain",
             query |-> currSim.query,
             previousState |-> [brandPosition |-> "not_tracked", score |-> 0],
             currentState |-> [brandPosition |-> currSim.brandPosition, score |-> 1]]>>
     ELSE <<>>)
    \o
    (IF /\ prevSim # NoSim /\ currSim.brandFound /\ prevSim.brandFound
        /\ positionImproved(currSim, prevSim)
     THEN <<[type |-> "visibility_drop",
             severity |-> "low",
             message |-> "Gain",
             query |-> currSim.query,
             previousState |-> [brandPosition |-> prevSim.brandPosition, score |-> 0],
             currentState |-> [brandPosition |-> currSim.brandPosition, score |-> 1]]>>
     ELSE <<>>)

RECURSIVE GainLoop(_, _, _)
GainLoop(cur, prev, i) ==
    IF i > Len(cur) THEN <<>>
    ELSE GainStep(cur[i], FindByQuery(prev, cur[i].query)) \o GainLoop(cur, prev, i + 1)

checkVisibilityGains(cur, prev) == GainLoop(cur, prev, 1)

\* variant: without the early return, a missing previous run is an empty one
generateAlerts_Mut(cur, prev) ==
    LET base == IF prev = NoRun
                THEN [simulations |-> <<>>, visibilityScore |-> cur.visibilityScore]
                ELSE prev
    IN checkVisibilityDrop(cur.visibilityScore, base.visibilityScore)
       \o checkBrandDisappearance(cur.simulations, base.simulations)
       \o checkCompetitorReplacement(cur.simulations, base.simulations)
       \o checkVisibilityGains(cur.simulations, base.simulations)

generateAlerts(cur, prev) ==
    IF prev = NoRun THEN <<>>
    ELSE checkVisibilityDrop(cur.visibilityScore, prev.visibilityScore)
         \o checkBrandDisappearance(cur.simulations, prev.simulations)
         \o checkCompetitorReplacement(cur.simulations, prev.simulations)
         \o checkVisibilityGains(cur.simulations, prev.simulations)

IsDrop(a) == a.type = "visibility_drop" /\ a.severity # "low"
IsThreat(a) == a.type = "competitor_overtake"
IsDisappearance(a) == a.type = "brand_disappeared"
IsGain(a) == a.severity = "low"

groupAlertsByType(list) ==
    [drops |-> SelectSeq(list, IsDrop),
     threats |-> SelectSeq(list, IsThreat),
     disappearances |-> SelectSeq(list, IsDisappearance),
     gains |-> SelectSeq(list, IsGain)]

\* the counts summarizeAlerts formats, and which of its three sentences it returns
summarizeAlerts(list) ==
    LET drops == Len(SelectSeq(list, IsDrop))
        threats == Len(SelectSeq(list, IsThreat))
        disappearances == Len(SelectSeq(list, IsDisappearance))
        gains == Len(SelectSeq(list, IsGain))
        critical == drops + threats + disappearances
    IN [sentence |-> IF Len(list) = 0 THEN "none"
                     ELSE IF critical > 0 THEN "critical" ELSE "positive",
        critical |-> IF Len(list) = 0 THEN 0 ELSE critical,
        gains |-> IF Len(list) = 0 THEN 0 ELSE gains]

(***************************************************************************)
(* Inputs: simulation outcomes as analyzeResponse and the failure          *)
(* placeholder of simulateAllSearches produce them (searchSimulator.ts):   *)
(* the brand is found exactly when its position is not absent.             *)
(***************************************************************************)
MaxSims == 2

Queries == {"q1", "q2"}
BrandStates == {<<FALSE, "absent">>, <<TRUE, "top">>, <<TRUE, "middle">>, <<TRUE, "bottom">>}
CompetitorLists == {<<>>, <<"A">>, <<"B">>, <<"A", "A">>, <<"A", "B">>}

Outcome(q, b, comps, sentiment) ==
    [query |-> q, brandFound |-> b[1], brandPosition |-> b[2],
     competitorsFound |-> comps, sentiment |-> sentiment]

Outcomes(compLists) ==
    {Outcome(q, b, c, "neutral") : q \in Queries, b \in BrandStates, c \in compLists}

\* every outcome over the two queries and the five competitor lists
PairOutcomes == Outcomes(CompetitorLists)
\* the outcomes of the longer runs: the current run names competitor A everywhere,
\* the previous run names nobody
ListCurOutcomes == Outcomes({<<"A">>})
ListPrevOutcomes == Outcomes({<<>>})

\* all lists of at most n elements of S
ListsUpTo(S, n) == UNION {[1..k -> S] : k \in 0..n}

\* a stored run (GEOAnalysisResult)
MkRun(runId, timestamp, brand, simulations, visibilityScore, runAlerts) ==
    [runId |-> runId, timestamp |-> timestamp, request |-> [brand |-> brand],
     simulations |-> simulations, visibilityScore |-> visibilityScore,
     alerts |-> runAlerts]

NoRollup == [summary |-> "unset"]

\* generateAlerts followed by the two rollups the orchestrator takes of its result
GenerateAlerts ==
    /\ phase = "input"
    /\ alerts' = generateAlerts(current, previous)
    /\ rollup' = [summary |-> summarizeAlerts(alerts'), groups |-> groupAlertsByType(alerts')]
    /\ phase' = "done"
    /\ UNCHANGED <<current, previous, storeVars, orchVars, agentVars>>

IdleStore ==
    /\ analysisHistory = <<>>
    /\ stored = <<>>
    /\ lookup = [op |-> "none"]

NoBatch == [state |-> "none"]
NoCall == [fn |-> "none"]
\* no agent function is called on its own
IdleAgents ==
    /\ batch = NoBatch
    /\ call = NoCall

\* no orchestration call can start
IdleOrch ==
    /\ pc = [p \in {1, 2} |-> "off"]
    /\ run = <<>>
    /\ clock = 0

CurrentOf(sims) ==
    [simulations |-> sims, visibilityScore |-> calculateVisibilityScore(sims)]

PreviousOf(sims) ==
    MkRun(1, 1, <<"a">>, sims, calculateVisibilityScore(sims), <<>>)

\* generateAlerts on every pair of runs of at most one outcome each over PairOutcomes,
\* and on every pair of runs of at most MaxSims outcomes over the list outcomes (so
\* that a query text can repeat within a run); each run carries the score
\* calculateVisibilityScore gives its outcomes, and the previous run may be missing
InitAlerts ==
    /\ \/ /\ \E sims \in ListsUpTo(PairOutcomes, 1) : current = CurrentOf(sims)
          /\ \/ previous = NoRun
             \/ \E sims \in ListsUpTo(PairOutcomes, 1) : previous = PreviousOf(sims)
       \/ /\ \E sims \in ListsUpTo(ListCurOutcomes, MaxSims) : current = CurrentOf(sims)
          /\ \/ previous = NoRun
             \/ \E sims \in ListsUpTo(ListPrevOutcomes, MaxSims) : previous = PreviousOf(sims)
    /\ alerts = <<>>
    /\ rollup = NoRollup
    /\ phase = "input"
    /\ IdleStore
    /\ IdleOrch
    /\ IdleAgents

NextAlerts == GenerateAlerts

SpecAlerts == InitAlerts /\ [][NextAlerts]_vars

\* percentage is Math.round of a ratio in [0, 1] times 100
MaxPercentage == 100

ScoreOf(percentage) == [percentage |-> percentage]

\* runs whose outcomes do not change from the previous run to the current one
UnchangedSims ==
    {<<>>,
     <<Outcome("q1", <<TRUE, "top">>, <<>>, "neutral")>>,
     <<Outcome("q1", <<FALSE, "absent">>, <<"A">>, "neutral")>>}

\* generateAlerts on every pair of percentages, the outcomes being the same in
\* the two runs
InitDrop ==
    /\ \E sims \in UnchangedSims, cur \in 0..MaxPercentage, prev \in 0..MaxPercentage :
          /\ current = [simulations |-> sims, visibilityScore |-> ScoreOf(cur)]
          /\ previous = MkRun(1, 1, <<"a">>, sims, ScoreOf(prev), <<>>)
    /\ alerts = <<>>
    /\ rollup = NoRollup
    /\ phase = "input"
    /\ IdleStore
    /\ IdleOrch
    /\ IdleAgents

NextDrop == GenerateAlerts

SpecDrop == InitDrop /\ [][NextDrop]_vars


(***************************************************************************)
(* The scorer on its own: calculateVisibilityScore applied, twice, to      *)
(* every list of at most MaxRich outcomes with any brand state, sentiment  *)
(* and up to two competitors, and to every list of at most MaxScored       *)
(* outcomes that are top, middle or absent without competitors.            *)
(***************************************************************************)
MaxRich == 2
MaxScored == 8

Sentiments == {"positive", "neutral", "negative"}
RichOutcomes ==
    {Outcome("q1", b, c, sentiment) :
        b \in BrandStates, c \in {<<>>, <<"A">>, <<"A", "B">>}, sentiment \in Sentiments}
PlainOutcomes ==
    {Outcome("q1", b, <<>>, "neutral") :
        b \in {<<TRUE, "top">>, <<TRUE, "middle">>, <<FALSE, "absent">>}}

InitScore ==
    /\ \/ \E sims \in ListsUpTo(RichOutcomes, MaxRich) : current = [simulations |-> sims]
       \/ \E sims \in ListsUpTo(PlainOutcomes, MaxScored) : current = [simulations |-> sims]
    /\ previous = NoRun
    /\ alerts = <<>>
    /\ rollup = NoRollup
    /\ phase = "unscored"
    /\ IdleStore
    /\ IdleOrch
    /\ IdleAgents

\* one call of calculateVisibilityScore on the list
Score ==
    /\ phase \in {"unscored", "scored"}
    /\ current' = CurrentOf(current.simulations)
    /\ phase' = IF phase = "unscored" THEN "scored" ELSE "rescored"
    /\ UNCHANGED <<previous, alerts, rollup, storeVars, orchVars, agentVars>>

NextScore == Score

SpecScore == InitScore /\ [][NextScore]_vars


(***************************************************************************)
(* The run repository on its own: any sequence of store and lookup calls.  *)
(* The n-th run stored under a key carries run id n.  One brand is stored  *)
(* under a single spelling up to MaxStores times, so that the retention    *)
(* cap is passed; the other is stored under two spellings of one key.      *)
(***************************************************************************)
MaxStores == 102
MaxMixed == 2

BulkBrand == <<"b">>
MixedBrands == {<<"a">>, <<"W", "W", "W", ".", "a", "/">>}
StoredBrands == MixedBrands \cup {BulkBrand}
\* a brand nothing is ever stored under
UnknownBrand == <<"c">>

StoreLimit(brand) == IF brand = BulkBrand THEN MaxStores ELSE MaxMixed

IdleAlerts ==
    /\ current = [simulations |-> <<>>]
    /\ previous = NoRun
    /\ alerts = <<>>
    /\ rollup = NoRollup
    /\ phase = "idle"

\* the log of the runs stored under the key of brand
LogOf(brand) == HistoryOf(stored, normalizeBrandKey(brand))

Log(result) ==
    LET brandKey == normalizeBrandKey(result.request.brand)
    IN [k \in DOMAIN stored \cup {brandKey} |->
            IF k = brandKey THEN Append(HistoryOf(stored, brandKey), result) ELSE stored[k]]

Store(brand) ==
    /\ Len(LogOf(brand)) < StoreLimit(brand)
    /\ LET n == Len(LogOf(brand)) + 1
           result == MkRun(n, n, brand, <<>>, ScoreOf(0), <<>>)
       IN /\ analysisHistory' = storeAnalysisResult(analysisHistory, result)
          /\ stored' = Log(result)
          /\ lookup' = [op |-> "store", brand |-> brand, result |-> NoRun]
    /\ UNCHANGED <<alertVars, orchVars, agentVars>>

GetLatest(brand) ==
    /\ lookup' = [op |-> "latest", brand |-> brand,
                  result |-> getLatestAnalysis(analysisHistory, brand)]
    /\ UNCHANGED <<analysisHistory, stored, alertVars, orchVars, agentVars>>

GetPrevious(brand) ==
    /\ lookup' = [op |-> "previous", brand |-> brand,
                  result |-> getPreviousAnalysis(analysisHistory, brand)]
    /\ UNCHANGED <<analysisHistory, stored, alertVars, orchVars, agentVars>>

InitStore ==
    /\ IdleStore
    /\ IdleAlerts
    /\ IdleOrch
    /\ IdleAgents

NextStore ==
    \/ \E brand \in StoredBrands : Store(brand)
    \/ \E brand \in StoredBrands \cup {UnknownBrand} : GetLatest(brand)
    \/ \E brand \in StoredBrands \cup {UnknownBrand} : GetPrevious(brand)

SpecStore == InitStore /\ [][NextStore]_vars

\* what the lookups must return, given the runs stored so far
LookupsAnswer ==
    LET log == LogOf(lookup.brand)
    IN /\ lookup.op = "latest" =>
             lookup.result = (IF Len(log) = 0 THEN NoRun ELSE log[Len(log)])
       /\ lookup.op = "previous" =>
             lookup.result = (IF Len(log) < 2 THEN NoRun ELSE log[Len(log) - 1])

LookupsKeepHistory ==
    [][lookup'.op \in {"latest", "previous"} => analysisHistory' = analysisHistory]_vars

\* C2 as stated: the history kept for a key is the sequence of the runs stored under
\* that key in store-call order; getLatestAnalysis returns the last stored run and
\* getPreviousAnalysis the second-to-last, or nothing with fewer than two.
C2_HistoryIsAllStored ==
    /\ DOMAIN analysisHistory = DOMAIN stored
    /\ \A k \in DOMAIN stored : analysisHistory[k] = stored[k]
    /\ LookupsAnswer

\* C2 amended: the history kept for a key is the sequence, in store-call order, of the
\* last 100 runs stored under that key (all of them while there are at most 100);
\* getLatestAnalysis returns the last stored run and getPreviousAnalysis the
\* second-to-last, or nothing with fewer than two; lookups never change the history.
C2_HistoryInArrivalOrder ==
    /\ [](/\ DOMAIN analysisHistory = DOMAIN stored
          /\ \A k \in DOMAIN stored : analysisHistory[k] = LastN(stored[k], 100)
          /\ LookupsAnswer)
    /\ LookupsKeepHistory

C2_Witness ==
    /\ lookup.op = "previous"
    /\ lookup.result # NoRun
    /\ Len(LogOf(lookup.brand)) > 100
    /\ \E k \in DOMAIN stored : Len(stored[k]) = 2 /\ stored[k][1].request # stored[k][2].request

(***************************************************************************)
(* contentGapAnalyzer.ts                                                   *)
(***************************************************************************)
HighCap == 5
MediumCap == 3
LowCap == 2

\* variant: nothing is cut off
Take_Mut(s, n) == s

\* slice(0, n)
Take(s, n) == IF Len(s) <= n THEN s ELSE SubSeq(s, 1, n)

Recommend(sims, priority) ==
    [i \in 1..Len(sims) |-> [targetQuery |-> sims[i].query, priority |-> priority]]

\* variant: every query without the brand is a low-priority candidate as well
analyzeContentGaps_Mut(simulations) ==
    LET competitorDominatedQueries ==
            SelectSeq(simulations,
                      LAMBDA sim : ~sim.brandFound /\ Len(sim.competitorsFound) > 0)
        weakPositionQueries ==
            SelectSeq(simulations,
                      LAMBDA sim : /\ sim.brandFound
                                   /\ sim.brandPosition \in {"bottom", "middle"}
                                   /\ Len(sim.competitorsFound) > 0)
        absentQueries == SelectSeq(simulations, LAMBDA sim : ~sim.brandFound)
    IN Recommend(Take(competitorDominatedQueries, HighCap), "high")
       \o Recommend(Take(weakPositionQueries, MediumCap), "medium")
       \o Recommend(Take(absentQueries, LowCap), "low")

analyzeContentGaps(simulations) ==
    LET competitorDominatedQueries ==
            SelectSeq(simulations,
                      LAMBDA sim : ~sim.brandFound /\ Len(sim.competitorsFound) > 0)
        weakPositionQueries ==
            SelectSeq(simulations,
                      LAMBDA sim : /\ sim.brandFound
                                   /\ sim.brandPosition \in {"bottom", "middle"}
                                   /\ Len(sim.competitorsFound) > 0)
        absentQueries == SelectSeq(simulations, LAMBDA sim : ~sim.brandFound)
        purelyAbsentQueries ==
            SelectSeq(absentQueries, LAMBDA sim : Len(sim.competitorsFound) = 0)
    IN Recommend(Take(competitorDominatedQueries, HighCap), "high")
       \o Recommend(Take(weakPositionQueries, MediumCap), "medium")
       \o Recommend(Take(purelyAbsentQueries, LowCap), "low")

\* variant: the list is returned as it came
prioritizeRecommendations_Mut(recommendations) == recommendations

\* Array.prototype.sort with the priorityOrder comparator (a stable sort)
prioritizeRecommendations(recommendations) ==
    SelectSeq(recommendations, LAMBDA r : r.priority = "high")
    \o SelectSeq(recommendations, LAMBDA r : r.priority = "medium")
    \o SelectSeq(recommendations, LAMBDA r : r.priority = "low")

(***************************************************************************)
(* The orchestrators: runGEOAnalysis (index.ts) and runRadiusOrchestration *)
(* (radiusOrchestrator.ts).  A call runs on the single JavaScript thread   *)
(* and can be overtaken by another call only while it awaits the oracle;   *)
(* each action below is one stretch of code between two awaits.            *)
(***************************************************************************)
\* the calls started in all, and the calls that can be in flight together
MaxRuns == 3
Calls == {1, 2}

OrchBrands == {<<"a">>, <<"b">>}
\* the queries this model plans for every request
Plan == <<"q1">>
\* what one oracle answer can be analysed into
OracleOutcomes(q) ==
    {Outcome(q, <<TRUE, "top">>, <<>>, "neutral"),
     Outcome(q, <<FALSE, "absent">>, <<"A">>, "neutral")}
\* the result pushed when simulateSearch throws
FailedOutcome(q) == Outcome(q, <<FALSE, "absent">>, <<>>, "neutral")

\* Generate up to 2
GenerateCap == 2
TrendThreshold == 5

NoComparison == [trend |-> "undefined"]

\* previousRunComparison
CompareRuns(previousAnalysis, visibilityScore) ==
    IF previousAnalysis = NoRun THEN NoComparison
    ELSE LET prevScore == previousAnalysis.visibilityScore.percentage
             currScore == visibilityScore.percentage
             change == currScore - prevScore
         IN [previousScore |-> prevScore, currentScore |-> currScore, change |-> change,
             trend |-> IF change > TrendThreshold THEN "improved"
                       ELSE IF change < -TrendThreshold THEN "declined" ELSE "stable"]

IdleCall ==
    [entry |-> "none", brand |-> <<>>, generateContent |-> FALSE, autoPublish |-> FALSE,
     runId |-> 0, timestamp |-> 0, queries |-> <<>>, simulations |-> <<>>,
     visibilityScore |-> ScoreOf(0), recommendations |-> <<>>, attempted |-> 0,
     generatedContent |-> <<>>, synthesis |-> <<>>, previousAnalysis |-> NoRun,
     alerts |-> <<>>, comparison |-> NoComparison, stages |-> <<>>]

\* the call comes to the code of a stage
Enter(r, stage) == [r EXCEPT !.stages = Append(@, stage)]

\* the baseline a call compares against, as the orchestrators fetch it
FetchPrevious(hist, brand) == getPreviousAnalysis(hist, brand)

\* fetch the previous run, compute the alerts and the comparison, store the run
Persist(p, r) ==
    LET previousAnalysis == FetchPrevious(analysisHistory, r.brand)
        runAlerts == generateAlerts([simulations |-> r.simulations,
                                     visibilityScore |-> r.visibilityScore],
                                    previousAnalysis)
        result == MkRun(r.runId, r.timestamp, r.brand, r.simulations,
                        r.visibilityScore, runAlerts)
                  @@ [queries |-> r.queries, contentRecommendations |-> r.recommendations]
    IN /\ analysisHistory' = storeAnalysisResult(analysisHistory, result)
       /\ stored' = Log(result)
       /\ lookup' = [op |-> "store", brand |-> r.brand, result |-> NoRun]
       /\ run' = [run EXCEPT ![p] = [Enter(r, "Persisted") EXCEPT
                                        !.previousAnalysis = previousAnalysis,
                                        !.alerts = runAlerts,
                                        !.comparison = CompareRuns(previousAnalysis,
                                                                   r.visibilityScore)]]
       /\ pc' = [pc EXCEPT ![p] = "Persisted"]

\* const runId = generateRunId(); const timestamp = new Date();
\* then the call awaits generateQueries
StartCall(p, entry, brand, generate, publish) ==
    /\ pc[p] \in {"idle", "Persisted"}
    /\ clock < MaxRuns
    /\ clock' = clock + 1
    /\ run' = [run EXCEPT ![p] = [IdleCall EXCEPT !.entry = entry, !.brand = brand,
                                                  !.generateContent = generate,
                                                  !.autoPublish = publish,
                                                  !.runId = clock', !.timestamp = clock',
                                                  !.stages = <<"Planning">>]]
    /\ pc' = [pc EXCEPT ![p] = "Planning"]
    /\ UNCHANGED <<storeVars, alertVars, agentVars>>

\* generateQueries returns; runRadiusOrchestration then awaits expandQueries (still
\* its step 1), runGEOAnalysis goes on to simulateAllSearches
PlanDone(p, queries) ==
    /\ pc[p] = "Planning"
    /\ IF run[p].entry = "radius"
       THEN /\ run' = [run EXCEPT ![p].queries = queries]
            /\ pc' = [pc EXCEPT ![p] = "Expanding"]
       ELSE /\ run' = [run EXCEPT ![p] = Enter([run[p] EXCEPT !.queries = queries],
                                               "Simulating")]
            /\ pc' = [pc EXCEPT ![p] = "Simulating"]
    /\ UNCHANGED <<clock, storeVars, alertVars, agentVars>>

ExpandDone(p) ==
    /\ pc[p] = "Expanding"
    /\ run' = [run EXCEPT ![p] = Enter(run[p], "Simulating")]
    /\ pc' = [pc EXCEPT ![p] = "Simulating"]
    /\ UNCHANGED <<clock, storeVars, alertVars, agentVars>>

\* variant: auto-publishing is entered with nothing generated
RadiusTail_Mut(r) ==
    Enter(IF r.autoPublish THEN Enter(r, "Publishing") ELSE r, "Comparing")

\* runRadiusOrchestration from its step 8 to the fetch of the previous run
RadiusTail(r) ==
    Enter(IF r.autoPublish /\ Len(r.generatedContent) > 0 THEN Enter(r, "Publishing") ELSE r,
          "Comparing")

\* one oracle call of simulateAllSearches returns (or throws: failed); after the last
\* one the call runs on to its next await, or to its end
SimulateDone(p, outcome) ==
    /\ pc[p] = "Simulating"
    /\ LET simulations == Append(run[p].simulations, outcome)
           r == [run[p] EXCEPT !.simulations = simulations]
       IN IF Len(simulations) < Len(r.queries)
          THEN /\ run' = [run EXCEPT ![p] = r]
               /\ UNCHANGED <<pc, storeVars>>
          ELSE LET scored == Enter([r EXCEPT !.visibilityScore =
                                                calculateVisibilityScore(simulations)],
                                   "Scoring")
                   recommendations ==
                       prioritizeRecommendations(analyzeContentGaps(simulations))
               IN IF r.entry = "geo"
                  THEN Persist(p, Enter([Enter(scored, "Comparing") EXCEPT
                                            !.recommendations = recommendations],
                                        "Recommending"))
                  ELSE LET recommended ==
                               Enter([scored EXCEPT !.recommendations = recommendations],
                                     "Recommending")
                       IN IF r.generateContent /\ Len(recommendations) > 0
                          THEN /\ run' = [run EXCEPT ![p] = Enter(recommended, "Generating")]
                               /\ pc' = [pc EXCEPT ![p] = "Generating"]
                               /\ UNCHANGED storeVars
                          ELSE Persist(p, RadiusTail(recommended))
    /\ UNCHANGED <<clock, alertVars, agentVars>>

Simulate(p) ==
    /\ pc[p] = "Simulating"
    /\ \E outcome \in OracleOutcomes(run[p].queries[Len(run[p].simulations) + 1])
                      \cup {FailedOutcome(run[p].queries[Len(run[p].simulations) + 1])} :
          SimulateDone(p, outcome)

\* variant: the item of a failed synthesis is kept as well
Synthesized_Mut(r, ok) ==
    [r EXCEPT !.attempted = @ + 1,
              !.generatedContent = Append(@, r.recommendations[r.attempted + 1].targetQuery),
              !.synthesis = Append(@, ok)]

\* try { generatedContent.push(await generateContent(rec, request)) } catch { }
\* `synthesis` records how each generateContent call ended
Synthesized(r, ok) ==
    [r EXCEPT !.attempted = @ + 1,
              !.generatedContent =
                  IF ok THEN Append(@, r.recommendations[r.attempted + 1].targetQuery) ELSE @,
              !.synthesis = Append(@, ok)]

\* one generateContent call returns (ok) or throws; after the last one the call runs
\* on to its end
GenerateDone(p, ok) ==
    /\ pc[p] = "Generating"
    /\ LET r == Synthesized(run[p], ok)
       IN IF r.attempted < Len(Take(r.recommendations, GenerateCap))
          THEN /\ run' = [run EXCEPT ![p] = r]
               /\ UNCHANGED <<pc, storeVars>>
          ELSE Persist(p, RadiusTail(r))
    /\ UNCHANGED <<clock, alertVars, agentVars>>

Init ==
    /\ IdleStore
    /\ IdleAlerts
    /\ IdleAgents
    /\ pc = [p \in Calls |-> "idle"]
    /\ run = [p \in Calls |-> IdleCall]
    /\ clock = 0

\* calls with auto-publishing are in SpecReport
Next ==
    \/ \E p \in Calls, brand \in OrchBrands :
          \/ StartCall(p, "geo", brand, FALSE, FALSE)
          \/ \E generate \in BOOLEAN : StartCall(p, "radius", brand, generate, FALSE)
    \/ \E p \in Calls : PlanDone(p, Plan)
    \/ \E p \in Calls : ExpandDone(p)
    \/ \E p \in Calls : Simulate(p)
    \/ \E p \in Calls, ok \in BOOLEAN : GenerateDone(p, ok)

Spec == Init /\ [][Next]_vars

\* the orchestrators together with generateAlerts applied to arbitrary runs
SpecPipeline == (Init \/ InitAlerts) /\ [][Next \/ NextAlerts]_vars

(***************************************************************************)
(* searchSimulator.ts: one call of simulateAllSearches on every list of    *)
(* at most MaxBatch queries, each oracle call returning or failing.        *)
(* `next` is the query the for loop issues next, `inFlight` the queries    *)
(* whose simulateSearch promise is pending, `answers` what each oracle     *)
(* call came back with.                                                    *)
(***************************************************************************)
MaxBatch == 3

Pending == [query |-> "pending"]
Failed == [query |-> "failed"]

StartBatch(queries) ==
    [state |-> "running", queries |-> queries, next |-> 1, inFlight |-> {},
     results |-> <<>>, answers |-> [i \in 1..Len(queries) |-> Pending]]

\* variant: the loop does not wait for the call it issued
CanIssue_Mut(b) == TRUE

\* the loop is not suspended at `await simulateSearch(...)`
CanIssue(b) == b.inFlight = {}

\* results.push(result)
OnResult(b, i, outcome) ==
    [b EXCEPT !.inFlight = @ \ {i},
              !.results = Append(@, outcome),
              !.answers[i] = outcome]

\* variant: no catch, the rejection leaves simulateAllSearches
OnFailure_Mut(b, i) ==
    [b EXCEPT !.inFlight = @ \ {i}, !.answers[i] = Failed, !.state = "threw"]

\* catch (error): push the failed result
OnFailure(b, i) ==
    [b EXCEPT !.inFlight = @ \ {i},
              !.results = Append(@, FailedOutcome(b.queries[i])),
              !.answers[i] = Failed]

IssueSearch ==
    /\ batch.state = "running"
    /\ batch.next <= Len(batch.queries)
    /\ CanIssue(batch)
    /\ batch' = [batch EXCEPT !.inFlight = @ \cup {batch.next}, !.next = @ + 1]
    /\ UNCHANGED <<call, storeVars, alertVars, orchVars>>

SearchReturns ==
    /\ batch.state = "running"
    /\ \E i \in batch.inFlight :
          \E outcome \in OracleOutcomes(batch.queries[i]) :
              batch' = OnResult(batch, i, outcome)
    /\ UNCHANGED <<call, storeVars, alertVars, orchVars>>

SearchFails ==
    /\ batch.state = "running"
    /\ \E i \in batch.inFlight : batch' = OnFailure(batch, i)
    /\ UNCHANGED <<call, storeVars, alertVars, orchVars>>

\* return results
ReturnResults ==
    /\ batch.state = "running"
    /\ batch.next > Len(batch.queries)
    /\ batch.inFlight = {}
    /\ batch' = [batch EXCEPT !.state = "returned"]
    /\ UNCHANGED <<call, storeVars, alertVars, orchVars>>

InitSimulate ==
    /\ \E queries \in ListsUpTo(Queries, MaxBatch) : batch = StartBatch(queries)
    /\ call = NoCall
    /\ IdleStore
    /\ IdleAlerts
    /\ IdleOrch

NextSimulate == IssueSearch \/ SearchReturns \/ SearchFails \/ ReturnResults

SpecSimulate == InitSimulate /\ [][NextSimulate]_vars

(***************************************************************************)
(* queryGenerator.ts: generateQueries.  A query is kept as its category,   *)
(* its intent and an identification of its text: (pattern set, index) for  *)
(* a pattern query, (competitor, side) for a versus query, ("ai", index)   *)
(* for a query of the oracle.                                              *)
(***************************************************************************)
\* QUERY_PATTERNS: the number of patterns of each set generateQueries reads
BestPatterns == 5
SegmentPatterns == 4
HowToPatterns == 3
WhatIsPatterns == 3
\* competitors.slice(0, 3)
VersusCompetitors == 3
\* Limit to 20 queries
QueryCap == 20

FromPatterns(category, intent, n) ==
    [k \in 1..n |-> [query |-> <<category, k>>, intent |-> intent, category |-> category]]

\* the two versus queries of each of the first three competitors
RECURSIVE VersusQueries(_)
VersusQueries(competitors) ==
    IF competitors = <<>> THEN <<>>
    ELSE << [query |-> <<"versus", Head(competitors), 1>>,
             intent |-> "comparison", category |-> "versus"],
            [query |-> <<"versus", Head(competitors), 2>>,
             intent |-> "comparison", category |-> "versus"] >>
         \o VersusQueries(Tail(competitors))

patternQueries(competitors) ==
    FromPatterns("best", "commercial", BestPatterns)
    \o VersusQueries(Take(competitors, VersusCompetitors))
    \o FromPatterns("for_segment", "commercial", SegmentPatterns)
    \o FromPatterns("how_to", "informational", HowToPatterns)
    \o FromPatterns("what_is", "informational", WhatIsPatterns)

\* what the oracle call of generateAIQueries can come to: it throws, or it returns a
\* text that is not JSON, JSON that is not an array, an array with a null element,
\* or an array of items (an item may lack intent and category)
MaxOracle == 6
MaxCompetitors == 4
AiItem(j) == [query |-> <<"ai", j>>, intent |-> "commercial", category |-> "best"]
BareItem(j) == [query |-> <<"ai", j>>]
OracleAnswers ==
    {[kind |-> "throws"], [kind |-> "unparsable"], [kind |-> "object"], [kind |-> "null item"]}
    \cup {[kind |-> "array", items |-> [j \in 1..n |-> AiItem(j)]] : n \in 0..MaxOracle}
    \cup {[kind |-> "array", items |-> <<BareItem(1), AiItem(2)>>]}

\* parsed.map(q => ({query, intent: q.intent || 'informational', category: q.category || 'what_is'}))
MapItem(q) ==
    [query |-> q.query,
     intent |-> IF "intent" \in DOMAIN q THEN q.intent ELSE "informational",
     category |-> IF "category" \in DOMAIN q THEN q.category ELSE "what_is"]

\* the promise of generateAIQueries: rejected when the oracle call throws; [] when the
\* response does not parse, is not an array, or mapping it throws
generateAIQueries(answer) ==
    CASE answer.kind = "throws" -> [rejected |-> TRUE, queries |-> <<>>]
      [] answer.kind = "array" ->
            [rejected |-> FALSE,
             queries |-> [j \in 1..Len(answer.items) |-> MapItem(answer.items[j])]]
      [] OTHER -> [rejected |-> FALSE, queries |-> <<>>]

\* variant: the queries of the oracle come first
generateQueries_Mut(competitors, answer) ==
    LET aiQueries == generateAIQueries(answer)
    IN [rejected |-> FALSE,
        queries |-> Take(aiQueries.queries \o patternQueries(competitors), QueryCap)]

\* the promise of generateQueries: the rejection of generateAIQueries is caught
generateQueries(competitors, answer) ==
    LET aiQueries == generateAIQueries(answer)
    IN IF aiQueries.rejected
       THEN [rejected |-> FALSE, queries |-> Take(patternQueries(competitors), QueryCap)]
       ELSE [rejected |-> FALSE,
             queries |-> Take(patternQueries(competitors) \o aiQueries.queries, QueryCap)]

\* generateQueries(request) settles, the oracle having answered
PlanQueries ==
    /\ call.fn = "generateQueries"
    /\ call.state = "awaiting"
    /\ \E answer \in OracleAnswers :
          LET promise == generateQueries(call.competitors, answer)
          IN call' = [call EXCEPT !.state = IF promise.rejected THEN "threw" ELSE "returned",
                                  !.answer = answer,
                                  !.result = promise.queries]
    /\ UNCHANGED <<batch, storeVars, alertVars, orchVars>>

InitPlan ==
    /\ \E competitors \in ListsUpTo({"A", "B"}, MaxCompetitors) :
          call = [fn |-> "generateQueries", state |-> "awaiting", competitors |-> competitors,
                  answer |-> [kind |-> "none"], result |-> <<>>]
    /\ batch = NoBatch
    /\ IdleStore
    /\ IdleAlerts
    /\ IdleOrch

NextPlan == PlanQueries

SpecPlan == InitPlan /\ [][NextPlan]_vars

(***************************************************************************)
(* contentGapAnalyzer.ts on its own: analyzeContentGaps on every list of   *)
(* at most MaxRich outcomes of any kind and on every list of at most       *)
(* MaxGapSims outcomes of four kinds whose query texts all differ, its     *)
(* result then sorted; and prioritizeRecommendations on every list of at   *)
(* most MaxRecs recommendations in any order.                              *)
(***************************************************************************)
MaxGapSims == 6
MaxRecs == 4

QueryTexts == <<"q1", "q2", "q3", "q4", "q5", "q6", "q7", "q8">>
\* competitor-dominated, weak position, purely absent, and well placed
GapKinds ==
    {<<<<FALSE, "absent">>, <<"A">>>>, <<<<TRUE, "middle">>, <<"A">>>>,
     <<<<FALSE, "absent">>, <<>>>>, <<<<TRUE, "top">>, <<"A">>>>}
GapList(kinds) ==
    [i \in 1..Len(kinds) |-> Outcome(QueryTexts[i], kinds[i][1], kinds[i][2], "neutral")]
Priorities == {"high", "medium", "low"}
AnyRecommendations ==
    {[targetQuery |-> q, priority |-> priority] : q \in Queries, priority \in Priorities}

GapsCall(simulations) ==
    [fn |-> "analyzeContentGaps", state |-> "called", simulations |-> simulations,
     result |-> <<>>]

AnalyzeGaps ==
    /\ call.fn = "analyzeContentGaps"
    /\ call.state = "called"
    /\ call' = [call EXCEPT !.state = "returned",
                            !.result = analyzeContentGaps(call.simulations)]
    /\ UNCHANGED <<batch, storeVars, alertVars, orchVars>>

\* prioritizeRecommendations(analyzeContentGaps(simulations, request))
PrioritizeGaps ==
    /\ call.fn = "analyzeContentGaps"
    /\ call.state = "returned"
    /\ call' = [fn |-> "prioritizeRecommendations", state |-> "returned",
                recommendations |-> call.result,
                result |-> prioritizeRecommendations(call.result)]
    /\ UNCHANGED <<batch, storeVars, alertVars, orchVars>>

Prioritize ==
    /\ call.fn = "prioritizeRecommendations"
    /\ call.state = "called"
    /\ call' = [call EXCEPT !.state = "returned",
                            !.result = prioritizeRecommendations(call.recommendations)]
    /\ UNCHANGED <<batch, storeVars, alertVars, orchVars>>

InitGaps ==
    /\ \/ \E sims \in ListsUpTo(RichOutcomes, MaxRich) : call = GapsCall(sims)
       \/ \E kinds \in ListsUpTo(GapKinds, MaxGapSims) : call = GapsCall(GapList(kinds))
       \/ \E recs \in ListsUpTo(AnyRecommendations, MaxRecs) :
             call = [fn |-> "prioritizeRecommendations", state |-> "called",
                     recommendations |-> recs, result |-> <<>>]
    /\ batch = NoBatch
    /\ IdleStore
    /\ IdleAlerts
    /\ IdleOrch

NextGaps == AnalyzeGaps \/ PrioritizeGaps \/ Prioritize

SpecGaps == InitGaps /\ [][NextGaps]_vars

(***************************************************************************)
(* One orchestration call on an empty repository, with a plan of MaxPlan   *)
(* queries, outcomes of every gap kind, and every choice of entry point,   *)
(* content generation and auto-publishing.                                 *)
(***************************************************************************)
MaxPlan == 3

ReportPlan == SubSeq(QueryTexts, 1, MaxPlan)
\* the outcomes of the gap kinds; the failed result is the purely absent one
ReportOutcomes(q) == {Outcome(q, kind[1], kind[2], "neutral") : kind \in GapKinds}

SimulateReport(p) ==
    /\ pc[p] = "Simulating"
    /\ \E outcome \in ReportOutcomes(run[p].queries[Len(run[p].simulations) + 1]) :
          SimulateDone(p, outcome)

InitReport ==
    /\ IdleStore
    /\ IdleAlerts
    /\ IdleAgents
    /\ pc = [p \in Calls |-> IF p = 1 THEN "idle" ELSE "off"]
    /\ run = [p \in Calls |-> IdleCall]
    /\ clock = 0

NextReport ==
    \/ /\ clock = 0
       /\ \/ StartCall(1, "geo", <<"a">>, FALSE, FALSE)
          \/ \E generate \in BOOLEAN, publish \in BOOLEAN :
                StartCall(1, "radius", <<"a">>, generate, publish)
    \/ PlanDone(1, ReportPlan)
    \/ ExpandDone(1)
    \/ SimulateReport(1)
    \/ \E ok \in BOOLEAN : GenerateDone(1, ok)

SpecReport == InitReport /\ [][NextReport]_vars

\* the gap analyzer on its own together with the orchestration call
SpecRecommend == (InitGaps \/ InitReport) /\ [][NextGaps \/ NextReport]_vars

(***************************************************************************)
(* Two orchestration calls for one brand key, under either spelling of the *)
(* brand, racing for its history.  The key holds no run yet, or as many    *)
(* earlier runs as leave room for one more below the retention cap.        *)
(***************************************************************************)
MaxOverlap == 2

\* a run stored before the calls of this specification; the i-th last has run id -i
EarlierRun(i) ==
    MkRun(-i, -i, <<"a">>, <<>>, ScoreOf(0), <<>>)
        @@ [queries |-> <<>>, contentRecommendations |-> <<>>]
EarlierHistory(n) == [i \in 1..n |-> EarlierRun(n + 1 - i)]
KeptBefore == {0, RetentionCap - 1}

InitRace ==
    /\ \E n \in KeptBefore :
          analysisHistory = (IF n = 0 THEN <<>> ELSE (<<"a">> :> EarlierHistory(n)))
    /\ stored = analysisHistory
    /\ lookup = [op |-> "none"]
    /\ IdleAlerts
    /\ IdleAgents
    /\ pc = [p \in Calls |-> "idle"]
    /\ run = [p \in Calls |-> IdleCall]
    /\ clock = 0

NextRace ==
    \/ /\ clock < MaxOverlap
       /\ \E p \in Calls, brand \in MixedBrands :
             \/ StartCall(p, "geo", brand, FALSE, FALSE)
             \/ StartCall(p, "radius", brand, FALSE, FALSE)
    \/ \E p \in Calls : PlanDone(p, Plan)
    \/ \E p \in Calls : ExpandDone(p)
    \/ \E p \in Calls : Simulate(p)

SpecRace == InitRace /\ [][NextRace]_vars

(***************************************************************************)
(* The repository with its queries: runs are stored under the spellings of *)
(* one brand and under brands whose key still carries a prefix or a slash, *)
(* and read back through every lookup, the history query and its route,    *)
(* the list of keys, and clearHistory on a listed key.                     *)
(***************************************************************************)
MaxKept == 3
MaxLimit == 3

\* spellings that differ in letter case, one leading "www." and one trailing slash
SpellingsOfA ==
    {<<"a">>, <<"A">>, <<"w", "w", "w", ".", "a">>, <<"a", "/">>,
     <<"W", "W", "W", ".", "A", "/">>}
\* brands with two prefixes and with two slashes
NestedBrands == {<<"w", "w", "w", ".", "w", "w", "w", ".", "a">>, <<"a", "/", "/">>}
QueryBrands == SpellingsOfA \cup NestedBrands

\* the n-th run stored: n % 3 queries, n % 2 alerts, percentage 10 n
NthRun(n, brand) ==
    MkRun(n, n, brand, <<>>, ScoreOf(10 * n), [i \in 1..(n % 2) |-> [type |-> "visibility_drop"]])
        @@ [queries |-> [i \in 1..(n % 3) |-> "q"], contentRecommendations |-> <<>>]

StoreRun(brand) ==
    /\ clock < MaxKept
    /\ clock' = clock + 1
    /\ LET result == NthRun(clock', brand)
       IN /\ analysisHistory' = storeAnalysisResult(analysisHistory, result)
          /\ stored' = Log(result)
          /\ lookup' = [op |-> "store", brand |-> brand, result |-> NoRun]
    /\ UNCHANGED <<pc, run, alertVars, agentVars>>

\* getHistoricalRuns called with a limit
GetHistory(brand, limit) ==
    /\ lookup' = [op |-> "history", brand |-> brand, limit |-> limit,
                  result |-> getHistoricalRuns(analysisHistory, brand, limit)]
    /\ UNCHANGED <<analysisHistory, stored, alertVars, orchVars, agentVars>>

\* GET /api/geo/history/:brand
HistoryRoute(brand, param) ==
    /\ lookup' = [op |-> "route", brand |-> brand, param |-> param,
                  result |-> getHistoricalRuns(analysisHistory, brand, RouteLimit(param)),
                  latestRun |-> getLatestAnalysis(analysisHistory, brand)]
    /\ UNCHANGED <<analysisHistory, stored, alertVars, orchVars, agentVars>>

GetAllBrands ==
    /\ lookup' = [op |-> "brands", result |-> getAllBrands(analysisHistory)]
    /\ UNCHANGED <<analysisHistory, stored, alertVars, orchVars, agentVars>>

\* a key that getAllBrands listed is passed back to getLatestAnalysis
LatestOfListed ==
    /\ lookup.op = "brands"
    /\ \E key \in lookup.result :
          lookup' = [op |-> "latest of key", brand |-> key,
                     result |-> getLatestAnalysis(analysisHistory, key)]
    /\ UNCHANGED <<analysisHistory, stored, alertVars, orchVars, agentVars>>

\* a key that getAllBrands listed is passed back to clearHistory
ClearListed ==
    /\ lookup.op = "brands"
    /\ \E key \in lookup.result :
          /\ analysisHistory' = clearHistory(analysisHistory, key)
          /\ stored' = clearHistory(stored, key)
          /\ lookup' = [op |-> "clear", brand |-> key, result |-> NoRun]
    /\ UNCHANGED <<alertVars, orchVars, agentVars>>

InitQuery ==
    /\ IdleStore
    /\ IdleAlerts
    /\ IdleOrch
    /\ IdleAgents

\* a query changes nothing but `lookup`, so every state is reached with the queries
\* taken one at a time after a store or a clear
NextQuery ==
    \/ \E brand \in QueryBrands : StoreRun(brand)
    \/ /\ lookup.op \in {"none", "store", "clear"}
       /\ \/ \E brand \in QueryBrands : GetLatest(brand)
          \/ \E brand \in QueryBrands : GetPrevious(brand)
          \/ \E brand \in QueryBrands, limit \in 0..MaxLimit : GetHistory(brand, limit)
          \/ \E brand \in QueryBrands :
                \/ HistoryRoute(brand, [given |-> FALSE, value |-> 0])
                \/ \E value \in 0..MaxLimit :
                      HistoryRoute(brand, [given |-> TRUE, value |-> value])
          \/ GetAllBrands
    \/ LatestOfListed
    \/ ClearListed

SpecQuery == InitQuery /\ [][NextQuery]_vars

(***************************************************************************)
(* routes.ts: the two analysis entry points.  A request is parsed against  *)
(* the route's schema; a request that fails is answered with status 400,   *)
(* one that passes is handed to the orchestrator, whose call then runs as  *)
(* above.                                                                  *)
(***************************************************************************)
BrandMax == 200
IndustryMax == 200
GeoCompetitorsMax == 10
RadiusCompetitorsMax == 5

\* variant: the competitor list may be empty
geoRequestSchema_Mut(request) ==
    /\ Len(request.brand) >= 1 /\ Len(request.brand) <= BrandMax
    /\ request.industry >= 1 /\ request.industry <= IndustryMax
    /\ Len(request.competitors) <= GeoCompetitorsMax

\* POST /api/geo/analyze: requestSchema.parse does not throw; the industry is its length
geoRequestSchema(request) ==
    /\ Len(request.brand) >= 1 /\ Len(request.brand) <= BrandMax
    /\ request.industry >= 1 /\ request.industry <= IndustryMax
    /\ Len(request.competitors) >= 1 /\ Len(request.competitors) <= GeoCompetitorsMax

\* POST /api/radius/run, /api/radius/demo and /api/radius/snapshot: requestSchema.parse
\* does not throw
radiusRequestSchema(request) ==
    /\ Len(request.brand) >= 1
    /\ request.industry >= 1
    /\ Len(request.competitors) >= 1 /\ Len(request.competitors) <= RadiusCompetitorsMax

\* the lengths of the competitor lists submitted: around the bounds of both schemas
CompetitorCounts ==
    {0, 1, RadiusCompetitorsMax, RadiusCompetitorsMax + 1, GeoCompetitorsMax,
     GeoCompetitorsMax + 1}
Requests ==
    [brand : {<<>>, <<"a">>}, industry : {0, 1},
     competitors : {[i \in 1..n |-> "A"] : n \in CompetitorCounts}]

RadiusRoutes == {"POST /api/radius/run", "POST /api/radius/demo", "POST /api/radius/snapshot"}

\* the route parses the body: 400 on a ZodError, else it calls the orchestrator
Receive(route, request) ==
    /\ call = NoCall
    /\ call' = [fn |-> route, request |-> request,
                state |-> IF (route = "POST /api/geo/analyze" /\ geoRequestSchema(request))
                             \/ (route \in RadiusRoutes /\ radiusRequestSchema(request))
                          THEN "parsed" ELSE "rejected",
                status |-> 0]
    /\ UNCHANGED <<batch, storeVars, alertVars, orchVars>>

\* res.status(400).json({ success: false, error: 'Invalid request data' })
Reject ==
    /\ call # NoCall
    /\ call.state = "rejected"
    /\ call.status = 0
    /\ call' = [call EXCEPT !.status = 400]
    /\ UNCHANGED <<batch, storeVars, alertVars, orchVars>>

\* await runGEOAnalysis(validatedData) / await runRadiusOrchestration(..., options)
Accept ==
    /\ call # NoCall
    /\ call.state = "parsed"
    /\ clock = 0
    /\ \/ /\ call.fn = "POST /api/geo/analyze"
          /\ StartCall(1, "geo", call.request.brand, FALSE, FALSE)
       \/ /\ call.fn \in {"POST /api/radius/run", "POST /api/radius/snapshot"}
          /\ \E generate \in BOOLEAN : StartCall(1, "radius", call.request.brand, generate, FALSE)
       \/ /\ call.fn = "POST /api/radius/demo"
          /\ StartCall(1, "radius", call.request.brand, FALSE, FALSE)

NextRoute ==
    \/ \E request \in Requests :
          \/ Receive("POST /api/geo/analyze", request)
          \/ \E route \in RadiusRoutes : Receive(route, request)
    \/ Reject
    \/ Accept
    \/ PlanDone(1, ReportPlan)
    \/ ExpandDone(1)
    \/ SimulateReport(1)
    \/ \E ok \in BOOLEAN : GenerateDone(1, ok)

\* the repository holds what earlier calls left in it
SpecRoute == InitRace /\ [][NextRoute]_vars

(***************************************************************************)
(* One orchestration call and the oracle behind it.  Every await of the    *)
(* call is on client.chat.completions.create, which the code calls without *)
(* a timeout, a deadline or an abort signal: the call resumes when the     *)
(* oracle settles the request, and the oracle may leave it unanswered.     *)
(* The steps of the program and the answers of a responsive oracle are     *)
(* taken fairly.                                                           *)
(***************************************************************************)
\* the stages in which the call awaits the oracle
AwaitingOracle(p) == pc[p] \in {"Planning", "Expanding", "Simulating", "Generating"}

\* the oracle never responds to the request in flight
OracleHangs ==
    /\ AwaitingOracle(1)
    /\ batch = NoBatch
    /\ batch' = [state |-> "stuck", stage |-> pc[1]]
    /\ UNCHANGED <<call, storeVars, alertVars, orchVars>>

\* the oracle responds or fails, and the call runs on to its next await
OracleSettles ==
    /\ batch = NoBatch
    /\ \/ PlanDone(1, ReportPlan)
       \/ ExpandDone(1)
       \/ SimulateReport(1)
       \/ \E ok \in BOOLEAN : GenerateDone(1, ok)

StartLive ==
    /\ clock = 0
    /\ \/ StartCall(1, "geo", <<"a">>, FALSE, FALSE)
       \/ \E generate \in BOOLEAN : StartCall(1, "radius", <<"a">>, generate, FALSE)

NextLive == StartLive \/ OracleSettles \/ OracleHangs

SpecLive == InitReport /\ [][NextLive]_vars /\ WF_vars(NextLive)

(***************************************************************************)
(* Properties of the drift alert engine                                    *)
(***************************************************************************)
Done == phase = "done"
HasPrevious == previous # NoRun
curSims == current.simulations
prevSims == previous.simulations
curPct == current.visibilityScore.percentage
prevPct == previous.visibilityScore.percentage

Persisted(p) == pc[p] = "Persisted"
\* the runs stored so far under the key of call p, and the place of p's run among them
LogOfCall(p) == LogOf(run[p].brand)
PlaceOf(p) == CHOOSE i \in 1..Len(LogOfCall(p)) : LogOfCall(p)[i].runId = run[p].runId

\* C1: every completed run with an earlier run of its brand stored has a comparison
\* baseline, and the baseline (of its alerts and of its previous-vs-current comparison)
\* is the run stored directly before it.
C1_BaselineIsPrecedingRun ==
    \A p \in Calls :
        (Persisted(p) /\ PlaceOf(p) > 1) =>
            /\ run[p].previousAnalysis = LogOfCall(p)[PlaceOf(p) - 1]
            /\ run[p].comparison # NoComparison
            /\ run[p].comparison.previousScore =
                  LogOfCall(p)[PlaceOf(p) - 1].visibilityScore.percentage

\* C3: generateAlerts returns the empty list whenever no previous run is supplied,
\* whatever the current outcomes and score; so a call that found no previous run
\* stores a run without alerts, and the first run stored for a brand has none.
C3_NoPreviousNoAlerts ==
    /\ (Done /\ ~HasPrevious) => alerts = <<>>
    /\ \A p \in Calls :
          (Persisted(p) /\ run[p].previousAnalysis = NoRun) =>
              /\ run[p].alerts = <<>>
              /\ LogOfCall(p)[PlaceOf(p)].alerts = <<>>
    /\ \A k \in DOMAIN stored : stored[k][1].alerts = <<>>

C3_Witness ==
    \E p \in Calls :
        /\ Persisted(p)
        /\ run[p].previousAnalysis = NoRun
        /\ PlaceOf(p) = 1
        /\ run[p].simulations[1].brandFound
        /\ analysisHistory[normalizeBrandKey(run[p].brand)][1].alerts = <<>>

\* the previous outcome the engine pairs with current outcome i
Matched(i) == FindByQuery(prevSims, curSims[i].query)
Count(list, Test(_)) == Len(SelectSeq(list, Test))
\* the alerts of the run-level rule: those about the overall score
RunLevelAlerts == SelectSeq(alerts, LAMBDA a : a.query = OverallQuery)

\* C4: whenever previous.percentage - current.percentage >= 20 there is exactly one
\* run-level visibility_drop alert, of severity high when the drop is >= 30 and
\* medium otherwise; previous 80 and current 55 with unchanged outcomes gives exactly
\* one alert in all, a visibility_drop of severity medium.
C4_DropAlert ==
    (Done /\ HasPrevious) =>
        /\ (prevPct - curPct >= 20) =>
              /\ Len(RunLevelAlerts) = 1
              /\ RunLevelAlerts[1].type = "visibility_drop"
              /\ RunLevelAlerts[1].severity =
                    (IF prevPct - curPct >= 30 THEN "high" ELSE "medium")
        /\ (prevPct = 80 /\ curPct = 55 /\ curSims = prevSims) =>
              /\ Len(alerts) = 1
              /\ alerts[1].type = "visibility_drop"
              /\ alerts[1].severity = "medium"

C4_Witness ==
    /\ Done /\ HasPrevious
    /\ prevPct = 80 /\ curPct = 55 /\ curSims = prevSims /\ curSims # <<>>
    /\ Len(alerts) = 1

\* C5: the run-level rule emits one alert exactly when the absolute drop is >= 20 or
\* the relative drop (previous > 0) is >= 20, its severity is high when the drop is
\* >= 30 and medium otherwise, and it is never low.
C5_DropSeverity ==
    (Done /\ HasPrevious) =>
        LET drop == prevPct - curPct
            triggers == drop >= 20 \/ (prevPct > 0 /\ drop * 100 >= 20 * prevPct)
        IN /\ Len(RunLevelAlerts) = (IF triggers THEN 1 ELSE 0)
           /\ \A i \in 1..Len(RunLevelAlerts) :
                 /\ RunLevelAlerts[i].severity = (IF drop >= 30 THEN "high" ELSE "medium")
                 /\ RunLevelAlerts[i].severity # "low"

\* C6: for every current outcome whose query has a previous outcome on which the brand
\* was found, and on which the brand is not found now, the alert list holds a
\* brand_disappeared alert for that query, of severity high when the previous position
\* was top and medium otherwise.
C6_Disappeared ==
    (Done /\ HasPrevious) =>
        \A i \in 1..Len(curSims) :
            (/\ Matched(i) # NoSim
             /\ Matched(i).brandFound
             /\ ~curSims[i].brandFound) =>
                \E k \in 1..Len(alerts) :
                    /\ alerts[k].type = "brand_disappeared"
                    /\ alerts[k].query = curSims[i].query
                    /\ alerts[k].severity =
                          (IF Matched(i).brandPosition = "top" THEN "high" ELSE "medium")

C6_Witness ==
    /\ Done /\ HasPrevious
    /\ \E i, j \in 1..Len(curSims) :
          /\ Matched(i) # NoSim /\ Matched(j) # NoSim
          /\ Matched(i).brandPosition = "top" /\ ~curSims[i].brandFound
          /\ Matched(j).brandPosition = "middle" /\ ~curSims[j].brandFound
    /\ \E k \in 1..Len(alerts) :
          alerts[k].type = "brand_disappeared" /\ alerts[k].severity = "medium"

\* C7: for every query present in both runs, if the brand held the top position
\* previously and is now absent or at a lower position (middle or bottom), a
\* high-severity brand_disappeared alert is emitted for that query.
C7_TopLost ==
    (Done /\ HasPrevious) =>
        \A i \in 1..Len(curSims) :
            (/\ Matched(i) # NoSim
             /\ Matched(i).brandFound /\ Matched(i).brandPosition = "top"
             /\ (~curSims[i].brandFound \/ curSims[i].brandPosition \in {"middle", "bottom"})) =>
                \E k \in 1..Len(alerts) :
                    /\ alerts[k].type = "brand_disappeared"
                    /\ alerts[k].query = curSims[i].query
                    /\ alerts[k].severity = "high"

\* the three conditions of the competitor-overtake rule, for current outcome c
\* and the previous outcome p of the same query
OvertakeCase(c, p) ==
    /\ p.brandFound /\ p.brandPosition \in {"top", "middle"}
    /\ (~c.brandFound \/ (p.brandPosition = "top" /\ c.brandPosition # "top"))
    /\ \/ Len(c.competitorsFound) > Len(p.competitorsFound)
       \/ Range(c.competitorsFound) \ Range(p.competitorsFound) # {}

\* C8: for every query, the competitor_overtake alerts for it are as many as the
\* current outcomes of that query that have a previous outcome and meet the three
\* conditions (so with one outcome per query: an alert if and only if they hold), each
\* of severity high; and a query that was top, is not found now and gained a
\* competitor has both a brand_disappeared and a competitor_overtake alert.
C8_Overtake ==
    (Done /\ HasPrevious) =>
        /\ \A q \in Queries :
              Count(alerts, LAMBDA a : a.type = "competitor_overtake" /\ a.query = q)
                = Cardinality({i \in 1..Len(curSims) :
                                /\ curSims[i].query = q
                                /\ Matched(i) # NoSim
                                /\ OvertakeCase(curSims[i], Matched(i))})
        /\ \A k \in 1..Len(alerts) :
              alerts[k].type = "competitor_overtake" =>
                  alerts[k].severity = "high" /\ alerts[k].query \in Queries
        /\ \A i \in 1..Len(curSims) :
              (/\ Matched(i) # NoSim
               /\ Matched(i).brandFound /\ Matched(i).brandPosition = "top"
               /\ ~curSims[i].brandFound
               /\ OvertakeCase(curSims[i], Matched(i))) =>
                  /\ \E k \in 1..Len(alerts) :
                        alerts[k].type = "brand_disappeared" /\ alerts[k].query = curSims[i].query
                  /\ \E k \in 1..Len(alerts) :
                        alerts[k].type = "competitor_overtake" /\ alerts[k].query = curSims[i].query

C8_Witness ==
    /\ Done /\ HasPrevious
    /\ \E i \in 1..Len(curSims) :
          /\ Matched(i) # NoSim
          /\ Matched(i).brandPosition = "top" /\ ~curSims[i].brandFound
          /\ OvertakeCase(curSims[i], Matched(i))
    /\ \E k \in 1..Len(alerts) : alerts[k].type = "competitor_overtake"
    /\ \E k \in 1..Len(alerts) : alerts[k].type = "brand_disappeared"

StrictlyImproved(c, p) ==
    \/ (p.brandPosition = "bottom" /\ c.brandPosition \in {"middle", "top"})
    \/ (p.brandPosition = "middle" /\ c.brandPosition = "top")

\* the alerts of the gains rule: those whose message is the Gain template
GainAlerts == SelectSeq(alerts, LAMBDA a : a.message = "Gain")

\* the gains of query q are as many as its current outcomes that meet Case
GainsMatch(Case(_)) ==
    \A q \in Queries :
        Count(GainAlerts, LAMBDA a : a.query = q)
          = Cardinality({i \in 1..Len(curSims) : curSims[i].query = q /\ Case(i)})

\* C9 as stated: the gains rule emits a low-severity alert for a query exactly when the
\* brand is found now on a query on which it was not found in the previous run, or the
\* brand is found in both runs and its position improved strictly.
C9_GainsAsStated ==
    (Done /\ HasPrevious) =>
        /\ GainsMatch(LAMBDA i :
              \/ curSims[i].brandFound /\ (Matched(i) = NoSim \/ ~Matched(i).brandFound)
              \/ /\ Matched(i) # NoSim /\ Matched(i).brandFound /\ curSims[i].brandFound
                 /\ StrictlyImproved(curSims[i], Matched(i)))
        /\ \A k \in 1..Len(GainAlerts) : GainAlerts[k].severity = "low"

\* C9 amended: the gains rule emits a low-severity alert for a query exactly when the
\* brand is found now on a query that no outcome of the previous run has, or the brand
\* is found in both runs and its position improved strictly; every alert of the gains
\* rule has severity low.
C9_Gains ==
    (Done /\ HasPrevious) =>
        /\ GainsMatch(LAMBDA i :
              \/ curSims[i].brandFound /\ Matched(i) = NoSim
              \/ /\ Matched(i) # NoSim /\ Matched(i).brandFound /\ curSims[i].brandFound
                 /\ StrictlyImproved(curSims[i], Matched(i)))
        /\ \A k \in 1..Len(GainAlerts) :
              GainAlerts[k].severity = "low" /\ GainAlerts[k].query \in Queries

C9_Witness ==
    /\ Done /\ HasPrevious
    /\ \E i \in 1..Len(curSims) :
          /\ Matched(i) # NoSim /\ ~Matched(i).brandFound /\ curSims[i].brandFound
          /\ \A k \in 1..Len(GainAlerts) : GainAlerts[k].query # curSims[i].query
    /\ \E k \in 1..Len(GainAlerts) : GainAlerts[k].previousState.brandPosition = "not_tracked"

\* C10: the rollup counts as critical exactly the alerts of the run-level drop,
\* disappearance and competitor-overtake rules and as gains exactly the alerts of the
\* gains rule; no alert is counted in both and a gain is never counted as critical.
C10_Rollup ==
    Done =>
        LET groups == rollup.groups
            critical == groups.drops \o groups.threats \o groups.disappearances
        IN /\ Len(critical) = Count(alerts, LAMBDA a : a.message # "Gain")
           /\ rollup.summary.critical = Len(critical)
           /\ Len(groups.gains) = Len(GainAlerts)
           /\ rollup.summary.gains = Len(groups.gains)
           /\ \A k \in 1..Len(critical) : critical[k].message # "Gain"
           /\ \A k \in 1..Len(groups.gains) : groups.gains[k].message = "Gain"
           /\ Range(critical) \cap Range(groups.gains) = {}

(***************************************************************************)
(* Properties of the scorer                                                *)
(***************************************************************************)
Scored == phase \in {"scored", "rescored"}
theScore == current.visibilityScore

\* C11: for every outcome list (the empty one, any number of competitors, any
\* sentiment) calculateVisibilityScore returns 0 <= percentage <= 100 and
\* 0 <= score <= maxPossibleScore.
C11_ScoreInRange ==
    Scored =>
        /\ 0 <= theScore.percentage /\ theScore.percentage <= 100
        /\ 0 <= theScore.score /\ theScore.score <= theScore.maxPossibleScore

\* the points of the outcomes add up to less than 0, and a brand mention with
\* negative sentiment is among them
C11_Witness ==
    /\ Scored
    /\ SumPoints(curSims) < 0
    /\ \E i \in 1..Len(curSims) : curSims[i].brandFound /\ curSims[i].sentiment = "negative"
    /\ theScore.score = 0 /\ theScore.percentage = 0

\* the reference formula of the score
RefPoints(o) ==
    (IF o.brandFound
     THEN 2 + (IF o.brandPosition = "top" THEN 3
               ELSE IF o.brandPosition = "middle" THEN 1 ELSE 0)
            - (IF o.sentiment = "negative" THEN 2 ELSE 0)
     ELSE 0)
    - Len(o.competitorsFound)

RECURSIVE RefSum(_)
RefSum(list) == IF list = <<>> THEN 0 ELSE RefPoints(list[1]) + RefSum(Tail(list))

RefTotal(list) == IF RefSum(list) < 0 THEN 0 ELSE RefSum(list)
RefMaxPossible(list) == 5 * Len(list)
\* round(total / max(1, maxPossible) x 100), halves rounded up
RefPercentage(list) ==
    LET d == IF RefMaxPossible(list) < 1 THEN 1 ELSE RefMaxPossible(list)
    IN (200 * RefTotal(list) + d) \div (2 * d)

\* C12: the result of calculateVisibilityScore is that of the reference formula:
\* total = max(0, sum of the points), maxPossible = 5 x the number of outcomes,
\* percentage = round(total / max(1, maxPossible) x 100); scoring the same list again
\* gives the same score, percentage and breakdown; one outcome found at top with no
\* competitors and neutral sentiment gives percentage 100.
C12_ReferenceFormula ==
    /\ [](Scored =>
            /\ theScore.score = RefTotal(curSims)
            /\ theScore.maxPossibleScore = RefMaxPossible(curSims)
            /\ theScore.percentage = RefPercentage(curSims)
            /\ (curSims = <<Outcome("q1", <<TRUE, "top">>, <<>>, "neutral")>>
                  => theScore.percentage = 100))
    /\ [][phase' = "rescored" => current' = current]_vars

(***************************************************************************)
(* Properties of the search simulator                                      *)
(***************************************************************************)
\* C13: simulateAllSearches never throws, and returns one outcome per query in input
\* order, outcome i carrying the text of query i; a query whose oracle call failed has
\* the placeholder outcome (brand not found, position absent, no competitors, neutral
\* sentiment) and every other query has the outcome its own oracle call gave.
C13_OneOutcomePerQuery ==
    /\ batch.state # "threw"
    /\ batch.state = "returned" =>
          /\ Len(batch.results) = Len(batch.queries)
          /\ \A i \in 1..Len(batch.queries) :
                /\ batch.results[i].query = batch.queries[i]
                /\ batch.answers[i] # Pending
                /\ batch.answers[i] = Failed =>
                      /\ ~batch.results[i].brandFound
                      /\ batch.results[i].brandPosition = "absent"
                      /\ batch.results[i].competitorsFound = <<>>
                      /\ batch.results[i].sentiment = "neutral"
                /\ batch.answers[i] # Failed => batch.results[i] = batch.answers[i]

C13_Witness ==
    /\ batch.state = "returned"
    /\ Len(batch.queries) = 3
    /\ batch.queries[1] = batch.queries[3] /\ batch.queries[1] # batch.queries[2]
    /\ batch.answers[1] # Failed /\ batch.answers[2] = Failed /\ batch.answers[3] # Failed
    /\ batch.results[1] # batch.results[3]

\* C14: within one batch at most one oracle call is in flight, and the call for a
\* query is issued only after the calls for all queries before it have returned or
\* failed.
C14_OneCallInFlight ==
    batch.state # "none" =>
        /\ Cardinality(batch.inFlight) <= 1
        /\ \A i \in 1..(batch.next - 1) :
              \A j \in 1..(i - 1) : j \notin batch.inFlight /\ batch.answers[j] # Pending

C14_Witness ==
    /\ batch.state = "running"
    /\ batch.inFlight = {2}
    /\ batch.answers[1] # Pending
    /\ batch.next <= Len(batch.queries)

(***************************************************************************)
(* Properties of the query planner                                         *)
(***************************************************************************)
Planned == call.fn = "generateQueries" /\ call.state = "returned"
\* the deterministic queries of the request: five best, two per competitor for the
\* first three competitors, four segment, three how-to and three what-is queries
Deterministic == patternQueries(call.competitors)
\* the answer is an array of items
Augmenting == call.answer.kind = "array"
IsPrefix(s, t) == Len(s) <= Len(t) /\ SubSeq(t, 1, Len(s)) = s
FromOracle(q) == q.query[1] = "ai"

\* C15: generateQueries never returns more than 20 queries, whatever the number of
\* competitors and of queries the oracle supplies.
C15_AtMostTwenty == Planned => Len(call.result) <= 20

C15_Witness ==
    /\ Planned
    /\ Len(call.competitors) > 3
    /\ Augmenting /\ Len(call.answer.items) >= 5
    /\ Len(call.result) = 20

\* C16: the plan is the first 20 of the deterministic queries followed by the
\* oracle's queries, the oracle's part being empty when its call fails or its
\* response is not a parsable array: planning always returns, the plan starts with
\* the first 20 deterministic queries in their order, and it holds a query of the
\* oracle only when it holds every deterministic one.
C16_DeterministicFirst ==
    /\ call.fn = "generateQueries" => call.state # "threw"
    /\ Planned =>
          LET first == 1..(IF Len(Deterministic) < 20 THEN Len(Deterministic) ELSE 20)
              rest == (Len(Deterministic) + 1)..Len(call.result)
          IN /\ Len(call.result) =
                   (IF ~Augmenting THEN Cardinality(first)
                    ELSE IF Len(Deterministic) + Len(call.answer.items) < 20
                         THEN Len(Deterministic) + Len(call.answer.items) ELSE 20)
             /\ \A k \in first : call.result[k] = Deterministic[k]
             /\ \A k \in rest :
                   /\ FromOracle(call.result[k])
                   /\ call.result[k].query = call.answer.items[k - Len(Deterministic)].query
             /\ (\E k \in 1..Len(call.result) : FromOracle(call.result[k]))
                   => IsPrefix(Deterministic, call.result)

C16_Witness ==
    /\ Planned
    /\ call.answer.kind = "throws"
    /\ Len(call.competitors) = 2
    /\ call.result = Deterministic
    /\ Len(call.result) = 19

(***************************************************************************)
(* Properties of the content gap analyzer                                  *)
(***************************************************************************)
Analyzed == call.fn = "analyzeContentGaps" /\ call.state = "returned"
gapSims == call.simulations
\* the places of the outcomes of each bucket
HighPlaces ==
    {i \in 1..Len(gapSims) : ~gapSims[i].brandFound /\ Len(gapSims[i].competitorsFound) >= 1}
MediumPlaces ==
    {i \in 1..Len(gapSims) : /\ gapSims[i].brandFound
                             /\ gapSims[i].brandPosition \in {"middle", "bottom"}
                             /\ Len(gapSims[i].competitorsFound) >= 1}
LowPlaces ==
    {i \in 1..Len(gapSims) : ~gapSims[i].brandFound /\ Len(gapSims[i].competitorsFound) = 0}
\* the first n places of S
FirstPlaces(S, n) == {i \in S : Cardinality({j \in S : j < i}) < n}
RECURSIVE Ascending(_)
Ascending(S) ==
    IF S = {} THEN <<>>
    ELSE LET least == CHOOSE i \in S : \A j \in S : i <= j
         IN <<least>> \o Ascending(S \ {least})
Expected(S, n, priority) ==
    LET places == Ascending(FirstPlaces(S, n))
    IN [k \in 1..Len(places) |->
            [targetQuery |-> gapSims[places[k]].query, priority |-> priority]]

\* C17: the recommendations are, in this order, one of priority high for each of the
\* first 5 outcomes with the brand not found and at least one competitor, one of
\* priority medium for each of the first 3 with the brand found at middle or bottom
\* and at least one competitor, and one of priority low for each of the first 2 with
\* the brand not found and no competitor, each targeting the query of its outcome;
\* no outcome is in two buckets and any other outcome gives none.
C17_OneBucket ==
    Analyzed =>
        /\ call.result = Expected(HighPlaces, 5, "high")
                            \o Expected(MediumPlaces, 3, "medium")
                            \o Expected(LowPlaces, 2, "low")
        /\ HighPlaces \cap MediumPlaces = {}
        /\ HighPlaces \cap LowPlaces = {}
        /\ MediumPlaces \cap LowPlaces = {}
        /\ \A i \in LowPlaces : \A k \in 1..Len(call.result) :
              (\A j \in 1..Len(gapSims) : gapSims[j].query = gapSims[i].query => j = i)
                /\ call.result[k].targetQuery = gapSims[i].query
                  => call.result[k].priority = "low"

C17_Witness ==
    /\ Analyzed
    /\ Cardinality(HighPlaces) = 6
    /\ Len(call.result) = 5

Rank(r) == CASE r.priority = "high" -> 0 [] r.priority = "medium" -> 1 [] OTHER -> 2
Sorted(recs) == \A k \in 1..Len(recs) : \A l \in k..Len(recs) : Rank(recs[k]) <= Rank(recs[l])
\* both lists hold each recommendation the same number of times
SameRecommendations(s, t) ==
    \A r \in Range(s) \cup Range(t) :
        Cardinality({k \in 1..Len(s) : s[k] = r}) = Cardinality({k \in 1..Len(t) : t[k] = r})
Prioritized == call.fn = "prioritizeRecommendations" /\ call.state = "returned"

\* C18: the output of prioritizeRecommendations holds the recommendations of its
\* input and is non-decreasing in priority rank (high, medium, low); the
\* recommendations of every stored run and of every report are in that order.
C18_SortedByPriority ==
    /\ Prioritized =>
          /\ SameRecommendations(call.recommendations, call.result)
          /\ Sorted(call.result)
    /\ \A key \in DOMAIN analysisHistory : \A i \in 1..Len(analysisHistory[key]) :
          Sorted(analysisHistory[key][i].contentRecommendations)
    /\ \A p \in Calls : pc[p] = "Persisted" => Sorted(run[p].recommendations)

C18_Witness ==
    /\ Prioritized
    /\ Len(call.recommendations) = 4
    /\ call.recommendations[1].priority = "low"
    /\ call.recommendations[2].priority = "high"
    /\ call.recommendations[3].priority = "medium"
    /\ call.recommendations[4].priority = "high"
    /\ call.recommendations[2].targetQuery # call.recommendations[4].targetQuery
    /\ call.result # call.recommendations

(***************************************************************************)
(* Properties of one orchestration call                                    *)
(***************************************************************************)
Place(order, stage) == CHOOSE i \in 1..Len(order) : order[i] = stage
\* the stages were entered in the order given, none of them twice
InOrder(stages, order) ==
    /\ \A k \in 1..Len(stages) : stages[k] \in Range(order)
    /\ \A k \in 1..(Len(stages) - 1) : Place(order, stages[k]) < Place(order, stages[k + 1])
StatedOrder ==
    <<"Planning", "Simulating", "Scoring", "Comparing", "Recommending", "Generating",
      "Publishing", "Persisted">>
RadiusOrder ==
    <<"Planning", "Simulating", "Scoring", "Recommending", "Generating", "Publishing",
      "Comparing", "Persisted">>
Started(p) == pc[p] \notin {"idle", "off"}
\* how often the run of call p has been appended to the repository
Appended(p) ==
    Cardinality({i \in 1..Len(LogOfCall(p)) : LogOfCall(p)[i].runId = run[p].runId})
\* what holds of a call whatever the order of its stages: the mandatory stages are
\* behind it when it is persisted, the optional ones are entered only when enabled,
\* and its run is appended once, on entering Persisted
StagesComplete(p) ==
    /\ (pc[p] = "Persisted") = ("Persisted" \in Range(run[p].stages))
    /\ pc[p] = "Persisted" =>
          {"Planning", "Simulating", "Scoring", "Comparing", "Recommending"}
              \subseteq Range(run[p].stages)
    /\ "Generating" \in Range(run[p].stages) =>
          run[p].generateContent /\ Len(run[p].recommendations) > 0
    /\ "Publishing" \in Range(run[p].stages) =>
          run[p].autoPublish /\ Len(run[p].generatedContent) > 0
    /\ Appended(p) = (IF pc[p] = "Persisted" THEN 1 ELSE 0)
\* a persisted call takes no further step
PersistedIsTerminal ==
    [][\A p \in Calls :
          (Started(p) /\ pc[p] = "Persisted" /\ run'[p].runId = run[p].runId)
              => (pc'[p] = "Persisted" /\ run'[p] = run[p])]_vars

Firsts(s, n) == [k \in 1..(IF Len(s) < n THEN Len(s) ELSE n) |-> s[k]]

\* C20: with content generation enabled, synthesis is attempted for the first 2
\* prioritized recommendations at most, in their order; the generated list holds
\* exactly the items whose synthesis succeeded, in order; a failure does not stop
\* the call, which is persisted after the last attempt; with content generation
\* disabled no synthesis is attempted.
C20_GenerateUpToTwo ==
    \A p \in Calls : Started(p) =>
        LET r == run[p]
            candidates == Firsts(r.recommendations, 2)
            succeeded == {k \in 1..Len(r.synthesis) : r.synthesis[k]}
        IN /\ r.attempted = Len(r.synthesis)
           /\ r.attempted <= Len(candidates)
           /\ r.generatedContent =
                 [k \in 1..Cardinality(succeeded) |->
                     candidates[Ascending(succeeded)[k]].targetQuery]
           /\ pc[p] = "Generating" => r.generateContent /\ r.attempted < Len(candidates)
           /\ (pc[p] = "Persisted" /\ r.entry = "radius" /\ r.generateContent)
                 => r.attempted = Len(candidates)
           /\ (r.entry = "geo" \/ ~r.generateContent)
                 => r.attempted = 0 /\ r.generatedContent = <<>>

C20_Witness ==
    /\ pc[1] = "Persisted"
    /\ Len(run[1].recommendations) = 3
    /\ run[1].synthesis = <<FALSE, TRUE>>
    /\ run[1].generatedContent = <<run[1].recommendations[2].targetQuery>>
    /\ Appended(1) = 1

(***************************************************************************)
(* Properties of overlapping orchestration calls                           *)
(***************************************************************************)
\* call p stores its run in this step
Persists(p) == pc[p] # "Persisted" /\ pc'[p] = "Persisted"
KeyOf(p) == normalizeBrandKey(run[p].brand)
\* the run of call p as the repository holds it
IsRunOf(result, p) == result.runId = run[p].runId /\ result.request.brand = run[p].brand
\* the last two runs kept under the key of p are those of p and q, q's first
LastTwoAre(q, p) ==
    LET history == HistoryOf(analysisHistory, KeyOf(p))
    IN /\ Len(history) >= 2
       /\ IsRunOf(history[Len(history) - 1], q)
       /\ IsRunOf(history[Len(history)], p)

\* C21 as stated: the append of a call keeps every run the history of its key held,
\* whatever the other call did meanwhile, and adds its own: the history grows by one
\* with each of two overlapping calls, by two with both.
C21_GrowsByTwo ==
    [][\A p \in Calls : Persists(p) =>
          LET before == HistoryOf(analysisHistory, KeyOf(p))
              after == HistoryOf(analysisHistory', KeyOf(p))
          IN /\ Len(after) = Len(before) + 1
             /\ SubSeq(after, 1, Len(before)) = before
             /\ IsRunOf(after[Len(after)], p)]_vars

\* C21 amended: the append of a call adds its run behind every run the history of
\* its key held and drops none of them but the oldest, and those only beyond 100
\* runs; two calls of one key that have both stored their runs are both in its
\* history.
C21_BothAppended ==
    /\ [][\A p \in Calls : Persists(p) =>
             LET before == HistoryOf(analysisHistory, KeyOf(p))
                 after == HistoryOf(analysisHistory', KeyOf(p))
             IN /\ Len(after) = (IF Len(before) < 100 THEN Len(before) + 1 ELSE 100)
                /\ SubSeq(after, 1, Len(after) - 1) = LastN(before, Len(after) - 1)
                /\ IsRunOf(after[Len(after)], p)]_vars
    /\ [](\A p \in Calls : \A q \in Calls \ {p} :
             (pc[p] = "Persisted" /\ pc[q] = "Persisted" /\ KeyOf(p) = KeyOf(q)
                  /\ run[p].runId # run[q].runId)
                 => LET history == analysisHistory[KeyOf(p)]
                    IN /\ \E i \in 1..Len(history) : IsRunOf(history[i], p)
                       /\ \E j \in 1..Len(history) : IsRunOf(history[j], q))

\* both calls have stored under the key "a", each under its own spelling; the call
\* started second stored first, so the two overlapped; the key held 99 runs before
C21_Witness ==
    /\ pc[1] = "Persisted" /\ pc[2] = "Persisted"
    /\ run[1].brand # run[2].brand
    /\ run[1].runId < run[2].runId
    /\ LastTwoAre(2, 1)
    /\ Len(analysisHistory[<<"a">>]) = 100
    /\ analysisHistory[<<"a">>][1].runId = -98

(***************************************************************************)
(* Properties of the repository queries                                    *)
(***************************************************************************)
\* the runs in a set, in the order of their run ids (the order they were stored in)
ByRunId(runs) ==
    [i \in 1..Cardinality(runs) |->
        CHOOSE r \in runs : Cardinality({x \in runs : x.runId < r.runId}) = i - 1]
\* the runs stored, and not cleared, under a brand string of the set
StoredUnder(brands) ==
    ByRunId({r \in UNION {Range(stored[k]) : k \in DOMAIN stored} : r.request.brand \in brands})
LineA == StoredUnder(SpellingsOfA)
Summaries(runs) == [i \in 1..Len(runs) |-> HistoricalRun(runs[i])]

\* C22: the spellings of a brand that differ in letter case, one leading "www." and
\* one trailing slash have one key and one history line: the runs stored under any
\* of them form one sequence in store order, and the latest, previous and history
\* lookups under any of them answer from that sequence.
C22_OneHistoryLine ==
    /\ \A b1 \in SpellingsOfA : \A b2 \in SpellingsOfA :
          normalizeBrandKey(b1) = normalizeBrandKey(b2)
    /\ LineA # <<>> =>
          \E key \in DOMAIN analysisHistory : analysisHistory[key] = LastN(LineA, 100)
    /\ (lookup.op \in {"latest", "previous", "history"} /\ lookup.brand \in SpellingsOfA) =>
          /\ lookup.op = "latest" =>
                lookup.result = (IF Len(LineA) = 0 THEN NoRun ELSE LineA[Len(LineA)])
          /\ lookup.op = "previous" =>
                lookup.result = (IF Len(LineA) < 2 THEN NoRun ELSE LineA[Len(LineA) - 1])
          /\ lookup.op = "history" =>
                /\ lookup.limit >= 1 =>
                      lookup.result = Summaries(Reverse(LastN(LineA, lookup.limit)))
                /\ \A b \in SpellingsOfA :
                      lookup.result = getHistoricalRuns(analysisHistory, b, lookup.limit)

C22_Witness ==
    /\ lookup.op = "history"
    /\ lookup.brand = <<"a">>
    /\ lookup.limit = 3
    /\ Len(lookup.result) = 3
    /\ lookup.result[1].brand = <<"W", "W", "W", ".", "A", "/">>
    /\ lookup.result[2].brand = <<"a", "/">>
    /\ lookup.result[3].brand = <<"w", "w", "w", ".", "a">>

\* C23: after any sequence of store operations every brand key holds at most 100 runs,
\* the most recently stored min(n, 100) runs of that brand in arrival order; a store
\* removes nothing but the oldest run and always keeps the run it stores.
C23_RetentionCap ==
    /\ [](\A k \in DOMAIN stored :
             LET n == Len(stored[k])
                 kept == Len(analysisHistory[k])
             IN /\ kept <= 100
                /\ kept = (IF n < 100 THEN n ELSE 100)
                /\ \A i \in 1..kept : analysisHistory[k][i] = stored[k][n - kept + i])
    /\ [][lookup'.op = "store" =>
             LET k == normalizeBrandKey(lookup'.brand)
                 before == HistoryOf(analysisHistory, k)
                 after == analysisHistory'[k]
             IN /\ after[Len(after)] = stored'[k][Len(stored'[k])]
                /\ after[Len(after)] \notin Range(before)
                /\ \/ SubSeq(after, 1, Len(after) - 1) = before
                   \/ Len(before) = 100 /\ SubSeq(after, 1, Len(after) - 1) = Tail(before)]_vars

C23_Witness ==
    /\ lookup.op = "store"
    /\ lookup.brand = BulkBrand
    /\ Len(stored[BulkBrand]) = 102
    /\ Len(analysisHistory[BulkBrand]) = 100
    /\ analysisHistory[BulkBrand][1].runId = 3
    /\ analysisHistory[BulkBrand][100].runId = 102

\* the limit a history query was made with: of the route, the limit parameter
AskedLimit ==
    IF lookup.op = "history" THEN lookup.limit
    ELSE IF lookup.param.given THEN lookup.param.value ELSE DefaultLimit

\* C24: for every brand and every limit >= 0 the history query returns the summaries
\* (run id, timestamp, visibility percentage, query count, alert count) of the
\* min(limit, n) most recently stored runs of the brand, most recent first, never
\* more than limit entries, and leaves the repository unchanged.
C24_HistoryQuery ==
    /\ [](lookup.op \in {"history", "route"} =>
             LET log == LogOf(lookup.brand)
                 n == Len(log)
                 count == IF AskedLimit < n THEN AskedLimit ELSE n
             IN /\ Len(lookup.result) = count
                /\ Len(lookup.result) <= AskedLimit
                /\ \A i \in 1..Len(lookup.result) :
                      /\ i <= n
                      /\ lookup.result[i].runId = log[n + 1 - i].runId
                      /\ lookup.result[i].timestamp = log[n + 1 - i].timestamp
                      /\ lookup.result[i].visibilityScore
                             = log[n + 1 - i].visibilityScore.percentage
                      /\ lookup.result[i].queryCount = Len(log[n + 1 - i].queries)
                      /\ lookup.result[i].alertCount = Len(log[n + 1 - i].alerts))
    /\ [][lookup'.op \in {"history", "route"} => analysisHistory' = analysisHistory]_vars

\* C28: brand-key normalization is idempotent, so every key that getAllBrands lists,
\* passed back to getLatestAnalysis, getAnalysisHistory or clearHistory, addresses the
\* history stored under that key.
C28_ListedKeysAddressThemselves ==
    /\ \A key \in getAllBrands(analysisHistory) :
          /\ normalizeBrandKey(key) = key
          /\ getAnalysisHistory(analysisHistory, key, Len(analysisHistory[key]))
                 = Reverse(analysisHistory[key])
          /\ key \notin DOMAIN clearHistory(analysisHistory, key)
    /\ lookup.op = "latest of key" =>
          LET history == analysisHistory[lookup.brand]
          IN lookup.result = (IF Len(history) = 0 THEN NoRun ELSE history[Len(history)])
    /\ lookup.op = "clear" => lookup.brand \notin DOMAIN analysisHistory

(***************************************************************************)
(* Properties of the analysis entry points                                 *)
(***************************************************************************)
Received == call # NoCall /\ call.fn \in {"POST /api/geo/analyze"} \cup RadiusRoutes
\* the request has an empty competitor list, an empty brand or an empty industry
EmptyField(request) ==
    request.competitors = <<>> \/ request.brand = <<>> \/ request.industry = 0
\* the orchestrator has been called, so that oracle calls are or were under way
Orchestrating == \E p \in Calls : Started(p)

C27_OneDisappearancePerQuery ==
    Done =>
        \A i \in 1..Len(alerts) : \A j \in 1..Len(alerts) :
            (/\ alerts[i].type = "brand_disappeared"
             /\ alerts[j].type = "brand_disappeared"
             /\ alerts[i].query = alerts[j].query) => i = j

\* C29: for every brand key, under any interleaving of overlapping orchestration calls,
\* the stored history is ordered by non-decreasing creation timestamp (taken, with the
\* run id, when the run started), so that latest and previous are the two most
\* recently started runs.
C29_HistoryInStartOrder ==
    \A key \in DOMAIN analysisHistory :
        LET history == analysisHistory[key]
        IN \A i \in 1..Len(history) : \A j \in i..Len(history) :
              history[i].timestamp <= history[j].timestamp

\* C25: every orchestration call eventually completes, even when an oracle call never
\* responds (a stuck call is cut off and counted as a failure of its step).
C25_CallCompletes ==
    \A p \in {1} : (pc[p] = "Planning") ~> (pc[p] \in {"Persisted", "Failed"})

(***************************************************************************)
(* Properties of the query planner, continued                              *)
(***************************************************************************)
\* the template queries the request instantiates: 5 best, both orderings of the
\* versus query for each of the first min(3, n) competitors, 4 segment, 3 how-to and
\* 3 what-is queries
TemplateQueries ==
    {<<"best", k>> : k \in 1..5}
    \cup {<<"versus", call.competitors[i], o>> :
              i \in 1..(IF Len(call.competitors) < 3 THEN Len(call.competitors) ELSE 3),
              o \in {1, 2}}
    \cup {<<"for_segment", k>> : k \in 1..4}
    \cup {<<"how_to", k>> : k \in 1..3}
    \cup {<<"what_is", k>> : k \in 1..3}

\* C30: the plan returned by generateQueries holds every template query instantiated
\* for the request; the cap of 20 queries drops none of them.
C30_EveryTemplateQuery ==
    Planned => \A q \in TemplateQueries : \E k \in 1..Len(call.result) : call.result[k].query = q

====
